---- MODULE Spec2Model ----
(***************************************************************************)
(* Font Fallback (src/font-fallback.py): the tag codec, the replacement    *)
(* engine and the restoration matcher.                                     *)
(*                                                                         *)
(* Text is a sequence of tokens.  A token is one character of the Python   *)
(* string that matters to the code (newline, space, '|'), or an atom that  *)
(* stands for an indivisible piece of text: a marker, a 'key:' prefix, a   *)
(* word of a font name, a timestamp.  Python's str operations are modelled *)
(* on these sequences by what they do (split, strip, find, replace, the    *)
(* two regular expressions).                                               *)
(***************************************************************************)
EXTENDS Integers, Sequences, FiniteSets, TLC

VARIABLES
    \* ---- the scene (one Fusion composition) and its environment
    nodes,      \* comp.GetToolList(): the tools in tool-list order
    catalog,    \* fusion.FontManager.GetFontList(): font -> set of styles
    session,    \* the wall clock: the millisecond datetime.now() reads next
    last,       \* what the last handler invocation did and reported
    replaced,   \* history: slot -> the pair a replacement overwrote, or NoPair
    budget,     \* the number of invocations a run is followed for
    worlds,     \* the font lists the host may report during a run
    locks,      \* comp.Lock() calls not yet matched by a comp.Unlock()
    faults,     \* the host failures a run may meet
    timeline,   \* the global timeline: whether a timeline was open when it was read
    further,    \* the compositions of the timeline after the first (they hold no text tool)
    further_locks, \* comp.Lock() calls on them not yet matched by a comp.Unlock()
    \* ---- the tag codec on its own (strings in, strings out)
    tag,        \* the RestorationTag being encoded
    pieces,     \* the pieces a text field was assembled from
    field,      \* a Comments text field
    decoded,    \* the result of the last decode of field
    cop         \* the last codec operation and its operands

sceneVars == <<nodes, catalog, session, last, replaced, budget, worlds, locks, faults, timeline, further, further_locks>>
codecVars == <<tag, pieces, field, decoded, cop>>
vars == <<nodes, catalog, session, last, replaced, budget, worlds, locks, faults, timeline, further, further_locks, tag, pieces, field, decoded, cop>>

-----------------------------------------------------------------------------
(* Tokens *)

NL == "\n"
SP == " "
BAR == "|"
MarkerOpen == "[PostFlows_FONT_RESTORE]"
MarkerClose == "[/PostFlows_FONT_RESTORE]"
KeyOriginalFont == "original_font:"
KeyOriginalStyle == "original_style:"
KeyReplacedWith == "replaced_with:"
KeyTimestamp == "timestamp:"
KeyRestoreId == "restore_id:"
KeyTextBlock == "TextBlock:"

\* Python's None, as a value no text can equal.
None == <<"None">>

\* Characters str.strip() and the regex class \s treat as whitespace.
Whitespace == {SP, NL}

\* Python truthiness of an Optional[str]: None and "" are false.
Truthy(v) == v # None /\ v # <<>>

-----------------------------------------------------------------------------
(* Python str operations on token sequences *)

\* s[i:] in 1-based form: the suffix of s that starts at position i.
From(s, i) == SubSeq(s, i, Len(s))

\* s.startswith(p)
StartsWith(s, p) == Len(p) <= Len(s) /\ SubSeq(s, 1, Len(p)) = p

\* s.find(sub, i): the first position >= i where sub occurs in s, 0 if none.
RECURSIVE Find(_, _, _)
Find(s, sub, i) ==
    IF i + Len(sub) - 1 > Len(s) THEN 0
    ELSE IF sub = <<>> \/ (s[i] = sub[1] /\ SubSeq(s, i, i + Len(sub) - 1) = sub) THEN i
    ELSE Find(s, sub, i + 1)

\* sub in s
Contains(s, sub) == Find(s, sub, 1) # 0

\* s.count(sub): the number of non-overlapping occurrences, left to right.
RECURSIVE CountFrom(_, _, _)
CountFrom(s, sub, i) ==
    LET p == Find(s, sub, i)
    IN  IF p = 0 \/ sub = <<>> THEN 0 ELSE 1 + CountFrom(s, sub, p + Len(sub))

Count(s, sub) == CountFrom(s, sub, 1)

\* s.replace(sub, ""): every non-overlapping occurrence removed, left to right.
RECURSIVE ReplaceAll(_, _)
ReplaceAll(s, sub) ==
    LET p == Find(s, sub, 1)
    IN  IF p = 0 \/ sub = <<>> THEN s
        ELSE SubSeq(s, 1, p - 1) \o ReplaceAll(From(s, p + Len(sub)), sub)

\* s.lstrip()
RECURSIVE LStrip(_)
LStrip(s) == IF s # <<>> /\ Head(s) \in Whitespace THEN LStrip(Tail(s)) ELSE s

\* s.rstrip()
RECURSIVE RStrip(_)
RStrip(s) ==
    IF s # <<>> /\ s[Len(s)] \in Whitespace THEN RStrip(SubSeq(s, 1, Len(s) - 1)) ELSE s

\* s.strip()
Strip(s) == RStrip(LStrip(s))

\* The position of the first newline of s at or after i, Len(s)+1 if none.
RECURSIVE LineEnd(_, _)
LineEnd(s, i) == IF i > Len(s) \/ s[i] = NL THEN i ELSE LineEnd(s, i + 1)

\* s.split('\n'): the lines of s; the empty text has one empty line.
RECURSIVE Split(_)
Split(s) ==
    LET e == LineEnd(s, 1)
    IN  IF e > Len(s) THEN <<s>>
        ELSE <<SubSeq(s, 1, e - 1)>> \o Split(From(s, e + 1))

\* '\n'.join(lines)
RECURSIVE Join(_)
Join(lines) ==
    IF lines = <<>> THEN <<>>
    ELSE IF Len(lines) = 1 THEN lines[1]
    ELSE lines[1] \o <<NL>> \o Join(Tail(lines))

\* The end of the maximal run of whitespace that starts at i (i itself if s[i]
\* is no whitespace): the first position >= i holding no whitespace.
RECURSIVE RunEnd(_, _)
RunEnd(s, i) == IF i <= Len(s) /\ s[i] \in Whitespace THEN RunEnd(s, i + 1) ELSE i

\* The number of newlines in s[i..j-1].
RECURSIVE Newlines(_, _, _)
Newlines(s, i, j) ==
    IF i >= j THEN 0 ELSE (IF s[i] = NL THEN 1 ELSE 0) + Newlines(s, i + 1, j)

\* The position of the last newline in s[i..j-1] (there is one).
RECURSIVE LastNewline(_, _)
LastNewline(s, j) == IF s[j - 1] = NL THEN j - 1 ELSE LastNewline(s, j - 1)

\* re.sub(r'\n\s*\n\s*\n', '\n\n', s): a match starts at a newline and, both
\* \s* being greedy, runs to the last newline of the whitespace run it is in,
\* provided the run holds three newlines from there on.
RECURSIVE CollapseFrom(_, _)
CollapseFrom(s, i) ==
    IF i > Len(s) THEN <<>>
    ELSE IF s[i] = NL /\ Newlines(s, i, RunEnd(s, i)) >= 3
         THEN <<NL, NL>> \o CollapseFrom(s, LastNewline(s, RunEnd(s, i)) + 1)
         ELSE <<s[i]>> \o CollapseFrom(s, i + 1)

CollapseBlankLines(s) == CollapseFrom(s, 1)

-----------------------------------------------------------------------------
(* Tag codec *)

\* RESTORE_TAG_TEMPLATE.format(...).strip(); timestamp is datetime.now().isoformat()
\* as read by the call.
create_restore_tag(original_font, original_style, replacement_font, replacement_style, timestamp, restore_id) ==
    Strip(<<NL, MarkerOpen, NL, KeyOriginalFont, SP>> \o original_font
          \o <<NL, KeyOriginalStyle, SP>> \o original_style
          \o <<NL, KeyReplacedWith, SP>> \o replacement_font \o <<BAR>> \o replacement_style
          \o <<NL, KeyTimestamp, SP>> \o timestamp
          \o <<NL, KeyRestoreId, SP>> \o restore_id
          \o <<NL, MarkerClose>>)

\* restore_tag = f"TextBlock: {text_block}\n{restore_tag}"
ScopedTagText(text_block, restore_tag) ==
    <<KeyTextBlock, SP>> \o text_block \o <<NL>> \o restore_tag

\* re.search(f"{param_name}: (.+)", text): the first place where the key and a
\* space are followed by at least one character of the same line; group(1) runs
\* to the end of that line; the result is group(1).strip(), or None.
RECURSIVE ExtractFrom(_, _, _)
ExtractFrom(text, key, i) ==
    LET p == Find(text, <<key, SP>>, i)
    IN  IF p = 0 THEN None
        ELSE IF p + 2 <= Len(text) /\ text[p + 2] # NL
             THEN Strip(SubSeq(text, p + 2, LineEnd(text, p + 2) - 1))
             ELSE ExtractFrom(text, key, p + 1)

\* A decoder that reads a value up to its first space, as the pattern (\S+) would.
ExtractWord(text, param_name) ==
    LET v == ExtractFrom(text, param_name, 1)
        p == IF v = None THEN 0 ELSE Find(v, <<SP>>, 1)
    IN  IF p = 0 THEN v ELSE SubSeq(v, 1, p - 1)

extract_tag_value(text, param_name) == ExtractFrom(text, param_name, 1)

\* replaced_with.split('|', 1) when replaced_with is truthy and holds a '|',
\* else (None, None).
SplitReplacedWith(replaced_with) ==
    IF Truthy(replaced_with) /\ Contains(replaced_with, <<BAR>>)
    THEN LET p == Find(replaced_with, <<BAR>>, 1)
         IN  <<SubSeq(replaced_with, 1, p - 1), From(replaced_with, p + 1)>>
    ELSE <<None, None>>

\* The first index >= i of a line that holds the marker, Len(lines)+1 if none.
RECURSIVE NextLineWith(_, _, _)
NextLineWith(lines, marker, i) ==
    IF i > Len(lines) \/ Contains(lines[i], <<marker>>) THEN i
    ELSE NextLineWith(lines, marker, i + 1)

\* A decoder that reads the fields by their place in the block: the original
\* font from the line after the opening marker, the original style from the
\* next one, replaced_with from the third.
TagDataByPosition(tag_content, text_block) ==
    LET full_tag_content == Join(tag_content)
        at(k, key) == IF k < Len(tag_content) THEN extract_tag_value(tag_content[k], key) ELSE None
        rw == SplitReplacedWith(at(4, KeyReplacedWith))
    IN  [original_font |-> at(2, KeyOriginalFont),
         original_style |-> at(3, KeyOriginalStyle),
         replacement_font |-> rw[1],
         replacement_style |-> rw[2],
         text_block |-> text_block,
         full_tag |-> IF text_block = None THEN full_tag_content
                      ELSE Join(<<<<KeyTextBlock, SP>> \o text_block>> \o tag_content)]

\* The dict the decoder builds from the lines of one block.
TagData(tag_content, text_block) ==
    LET full_tag_content == Join(tag_content)
        rw == SplitReplacedWith(extract_tag_value(full_tag_content, KeyReplacedWith))
    IN  [original_font |-> extract_tag_value(full_tag_content, KeyOriginalFont),
         original_style |-> extract_tag_value(full_tag_content, KeyOriginalStyle),
         replacement_font |-> rw[1],
         replacement_style |-> rw[2],
         text_block |-> text_block,
         full_tag |-> IF text_block = None THEN full_tag_content
                      ELSE Join(<<<<KeyTextBlock, SP>> \o text_block>> \o tag_content)]

\* tags.append(tag_data) under `if original_font and original_style`
AppendIfComplete(tags, t) ==
    IF Truthy(t.original_font) /\ Truthy(t.original_style) THEN Append(tags, t) ELSE tags

\* The while loop of parse_all_restore_tags_from_comments, lines indexed from 1.
RECURSIVE ParseLoop(_, _, _)
ParseLoop(lines, i, tags) ==
    IF i > Len(lines) THEN tags
    ELSE
      LET line == Strip(lines[i])
      IN  IF StartsWith(line, <<KeyTextBlock>>)
          THEN LET text_block == Strip(ReplaceAll(line, <<KeyTextBlock>>))
                   o == NextLineWith(lines, MarkerOpen, i + 1)
                   j == NextLineWith(lines, MarkerClose, o)
               IN  IF o <= Len(lines) /\ j <= Len(lines)
                   THEN ParseLoop(lines, j + 1,
                                  AppendIfComplete(tags, TagData(SubSeq(lines, o, j), text_block)))
                   ELSE ParseLoop(lines, o + 1, tags)
          ELSE IF Contains(line, <<MarkerOpen>>)
          THEN LET j == NextLineWith(lines, MarkerClose, i)
               IN  IF j <= Len(lines)
                   THEN ParseLoop(lines, j + 1,
                                  AppendIfComplete(tags, TagData(SubSeq(lines, i, j), None)))
                   ELSE ParseLoop(lines, i + 1, tags)
          ELSE ParseLoop(lines, i + 1, tags)

\* The decoder on the text GetInput("Comments") returned.
ParseComments(comments) == ParseLoop(Split(comments), 1, <<>>)

\* What a caller would be left with if the decoder let an exception through.
Raised == <<[raised |-> TRUE]>>

\* A decoder whose read of the Comments input is outside the try block.
ParseUnguarded(comments, getInputRaises) ==
    IF getInputRaises THEN Raised ELSE ParseComments(comments)

\* parse_all_restore_tags_from_comments(node): the body runs under try/except,
\* so a GetInput that raises leaves the empty list that was built before it.
parse_all_restore_tags_from_comments(comments, getInputRaises) ==
    IF getInputRaises THEN <<>> ELSE ParseComments(comments)

\* A remover that empties the field it was given.
ClearComments(comments, tag_data) == <<>>

\* remove_specific_restore_tag: the new Comments text of the owner.
remove_specific_restore_tag(comments, tag_data) ==
    IF Contains(comments, tag_data.full_tag)
    THEN Strip(CollapseBlankLines(ReplaceAll(comments, tag_data.full_tag)))
    ELSE comments

-----------------------------------------------------------------------------
(* The scene: font names, the catalog, the tools of a composition *)

Helvetica == <<"Helvetica">>
Arial == <<"Arial">>
Regular == <<"Regular">>
Bold == <<"Bold">>
Italic == <<"Italic">>
Black == <<"Black">>
Note == <<"note">>

Pair(f, s) == [font |-> f, style |-> s]
\* A slot that does not exist on the tool (node.Font is None, GetInput gives None).
NoPair == Pair(None, None)

\* The sub-slot namespace of a MultiText tool (common_patterns).
TextBlocks == <<"Text1", "Text2", "Text3", "Text4", "Text5">>
BlockNames == {TextBlocks[k] : k \in 1..Len(TextBlocks)}
NoBlocks == [b \in BlockNames |-> NoPair]

\* Type ids (TOOLS_RegID) that hold the substring 'Group', resp. 'Macro': the
\* two containers of the host, and an effect whose id holds 'Group'.
IdsWithGroup == {"GroupOperator", "Fuse.GroupShadow"}
IdsWithMacro == {"MacroOperator"}

\* A tool: its type id, its Font/Style inputs, its TextN.Font/TextN.Style inputs,
\* its Comments input, and inside, the index of the group or macro that holds
\* it in the flow (0 at the top level).  No handler reads inside.
TextPlusNode(p, comments) ==
    [regid |-> "TextPlus", font |-> p.font, style |-> p.style, blocks |-> NoBlocks,
     comments |-> comments, inside |-> 0]
MultiTextNode(p1, p2) ==
    [regid |-> "MultiText", font |-> None, style |-> None,
     blocks |-> [b \in BlockNames |-> IF b = "Text1" THEN p1 ELSE IF b = "Text2" THEN p2 ELSE NoPair],
     comments |-> <<>>, inside |-> 0]
GroupNode ==
    [regid |-> "GroupOperator", font |-> None, style |-> None, blocks |-> NoBlocks,
     comments |-> <<>>, inside |-> 0]

MacroNode ==
    [regid |-> "MacroOperator", font |-> None, style |-> None, blocks |-> NoBlocks,
     comments |-> <<>>, inside |-> 0]
\* An effect tool that is no container.
EffectNode ==
    [regid |-> "Fuse.GroupShadow", font |-> None, style |-> None, blocks |-> NoBlocks,
     comments |-> <<>>, inside |-> 0]
\* A tool of another type that has a Font and a Style input (the host's 3D
\* text tool).
Text3DNode(p) ==
    [regid |-> "Text3D", font |-> p.font, style |-> p.style, blocks |-> NoBlocks,
     comments |-> <<>>, inside |-> 0]
\* Tool node as held by the group or macro at index g of the tool list.
Inside(node, g) == [node EXCEPT !.inside = g]

\* What the host may refuse during one invocation: comp.GetToolList() raises
\* ("toollist"); reading Font, Style or Name of tool node raises ("inspect");
\* GetInput("Comments"), resp. SetInput("Comments", ...), on tool node raises
\* ("read", "comments"); SetInput of a font input, resp. of a style input, of
\* tool node raises ("font", "style").  block is "" when the failure is that of
\* every such input of the tool, or names the one sub-slot whose TextN.Font,
\* resp. TextN.Style, input refuses the write.
Fault(kind, node) == [kind |-> kind, node |-> node, block |-> ""]
BlockFault(kind, node, text_block) == [kind |-> kind, node |-> node, block |-> text_block]
NoFault == Fault("none", 0)
Fails(fault, kind, i) == fault.kind = kind /\ fault.node = i /\ fault.block = ""
\* The write to the font, resp. style, input of slot <<i, text_block>> raises.
FailsAt(fault, kind, i, text_block) ==
    fault.kind = kind /\ fault.node = i /\ fault.block \in {"", text_block}

\* The slots of a scene: <<tool index, "">> for the Font/Style of a tool,
\* <<tool index, block>> for TextN.Font/TextN.Style.
SlotsOf(ns) ==
    {<<i, "">> : i \in {k \in 1..Len(ns) : ns[k].font # None}}
    \cup {sl \in (1..Len(ns)) \X BlockNames : ns[sl[1]].blocks[sl[2]].font # None}

SlotPair(ns, sl) ==
    IF sl[2] = "" THEN Pair(ns[sl[1]].font, ns[sl[1]].style) ELSE ns[sl[1]].blocks[sl[2]]

\* An availability test that looks at the font family only.
FamilyInstalled(font_list, font_name, style_name) == font_name \in DOMAIN font_list

\* check_font_style_availability against the font list
check_font_style_availability(font_list, font_name, style_name) ==
    font_name \in DOMAIN font_list /\ style_name \in font_list[font_name]

\* GetInput(style_pattern) or "Regular"
StyleOrRegular(s) == IF Truthy(s) THEN s ELSE Regular

\* node.Style[1] if node.Style else "Regular"
StyleOfInput(s) == IF s = None THEN Regular ELSE s

\* datetime.now().isoformat() of the k-th tag created by invocation s; on a
\* coarse clock every call of one invocation reads the same time.
Timestamp(s, k, coarse) == <<"T", ToString(s), ToString(IF coarse THEN 0 ELSE k)>>

\* generate_unique_id() of invocation s
generate_unique_id(s) == <<"S", ToString(s)>>

-----------------------------------------------------------------------------
(* Usage scanner *)

\* A scanner that files every style of a font it meets as missing.
MarkUnavailable(font_name, font_style, used_fonts, installed_fonts) ==
    LET entered ==
            IF font_name \in DOMAIN used_fonts THEN used_fonts
            ELSE used_fonts @@ (font_name :> [used_styles |-> {}, missing_styles |-> {},
                                              font_missing |-> font_name \notin DOMAIN installed_fonts])
    IN  [entered EXCEPT ![font_name].used_styles = @ \cup {font_style},
                        ![font_name].missing_styles = @ \cup {font_style}]

\* A usage record that files a style as missing whenever the font list does not
\* hold it with the font, the font being listed or not.
MissingStyleOfAnyFont(font_name, font_style, used_fonts, installed_fonts) ==
    LET entered ==
            IF font_name \in DOMAIN used_fonts THEN used_fonts
            ELSE used_fonts @@ (font_name :> [used_styles |-> {}, missing_styles |-> {},
                                              font_missing |-> font_name \notin DOMAIN installed_fonts])
        added == [entered EXCEPT ![font_name].used_styles = @ \cup {font_style}]
    IN  IF font_name \in DOMAIN installed_fonts /\ font_style \in installed_fonts[font_name]
        THEN added
        ELSE [added EXCEPT ![font_name].missing_styles = @ \cup {font_style}]

\* process_font_usage: the UsageRecord of font_name is created on its first
\* use, the style is added to used_styles, and to missing_styles when the font
\* is installed without it.
process_font_usage(font_name, font_style, used_fonts, installed_fonts) ==
    LET entered ==
            IF font_name \in DOMAIN used_fonts THEN used_fonts
            ELSE used_fonts @@ (font_name :> [used_styles |-> {}, missing_styles |-> {},
                                              font_missing |-> font_name \notin DOMAIN installed_fonts])
        added == [entered EXCEPT ![font_name].used_styles = @ \cup {font_style}]
    IN  IF font_name \in DOMAIN installed_fonts /\ font_style \notin installed_fonts[font_name]
        THEN [added EXCEPT ![font_name].missing_styles = @ \cup {font_style}]
        ELSE added

\* extract_multitext_fonts for tool node, from text block b on: a GetInput that
\* raises is caught per pattern, so a block whose font could not be read is
\* left out and a block whose style could not be read counts as "Regular", as
\* does a block whose style is unset.
RECURSIVE extract_multitext_fonts(_, _, _, _, _, _)
extract_multitext_fonts(node, i, b, used_fonts, installed_fonts, fault) ==
    IF b > Len(TextBlocks) THEN used_fonts
    ELSE LET text_block == TextBlocks[b]
             cur == node.blocks[text_block]
             font_style ==
                 IF FailsAt(fault, "getstyle", i, text_block) THEN Regular
                 ELSE StyleOrRegular(cur.style)
         IN  extract_multitext_fonts(node, i, b + 1,
                 IF Truthy(cur.font) /\ ~FailsAt(fault, "getfont", i, text_block)
                 THEN process_font_usage(cur.font, font_style, used_fonts, installed_fonts)
                 ELSE used_fonts,
                 installed_fonts, fault)

\* The body of the loop of get_used_fonts for tool i.  The test
\* `hasattr(node, 'Font') and node.Font` is outside every try block: a read of
\* Font that raises leaves the scan (raised).  A read of Style that raises, or
\* gives None, is caught and counts as "Regular"; a GetAttrs that raises is
\* caught and the tool is skipped.
ScanNode(i, acc, ns, installed_fonts, fault) ==
    IF Fails(fault, "inspect", i) THEN [acc EXCEPT !.raised = TRUE]
    ELSE IF ns[i].font # None
    THEN [acc EXCEPT !.used =
              process_font_usage(ns[i].font,
                                 IF Fails(fault, "getstyle", i) THEN Regular
                                 ELSE StyleOfInput(ns[i].style),
                                 @, installed_fonts)]
    ELSE IF ns[i].regid = "MultiText" /\ ~Fails(fault, "attrs", i)
    THEN [acc EXCEPT !.used = extract_multitext_fonts(ns[i], i, 1, @, installed_fonts, fault)]
    ELSE acc

RECURSIVE ScanLoop(_, _, _, _, _)
ScanLoop(i, acc, ns, installed_fonts, fault) ==
    IF i > Len(ns) \/ acc.raised THEN acc
    ELSE ScanLoop(i + 1, ScanNode(i, acc, ns, installed_fonts, fault), ns, installed_fonts, fault)

\* used_fonts = {} of line 187: what get_used_fonts has before its first host
\* call on the scene.
ScanIdle == [used |-> <<>>, raised |-> FALSE]

\* get_used_fonts on one composition: the mapping font -> UsageRecord;
\* comp.GetToolList() is outside every try block.
get_used_fonts(ns, installed_fonts, fault) ==
    IF fault.kind = "toollist" THEN [ScanIdle EXCEPT !.raised = TRUE]
    ELSE ScanLoop(1, ScanIdle, ns, installed_fonts, fault)

-----------------------------------------------------------------------------
(* Replacement engine *)

\* A classification that looks at the font family only.
FontMissing(installed_fonts, font, style) == font \notin DOMAIN installed_fonts

\* needs_replacement and reason of the classification (lines 891-900, 1054-1063)
NeedsReplacement(installed_fonts, font, style) ==
    font \notin DOMAIN installed_fonts \/ style \notin installed_fonts[font]

Reason(installed_fonts, font) ==
    IF font \notin DOMAIN installed_fonts THEN "font missing" ELSE "style missing"

\* find_parent_group_or_macro: the index of the first tool whose type id is
\* GroupOperator or MacroOperator or holds 'Group' or 'Macro'; 0 for None.  The
\* result does not depend on target_node.
find_parent_group_or_macro(ns) ==
    LET valid_parents == {i \in 1..Len(ns) : ns[i].regid \in IdsWithGroup \cup IdsWithMacro}
    IN  IF valid_parents = {} THEN 0
        ELSE CHOOSE i \in valid_parents : \A k \in valid_parents : i <= k

\* should_use_node_comments: no tool is a GroupOperator, a MacroOperator or has
\* an id that holds 'Group' without being 'Group' itself.
should_use_node_comments(ns) ==
    {i \in 1..Len(ns) : \/ ns[i].regid \in {"GroupOperator", "MacroOperator"}
                        \/ (ns[i].regid \in IdsWithGroup /\ ns[i].regid # "Group")} = {}

\* An append that writes only into an empty field.
AppendIfEmpty(current_comments, addition) ==
    IF current_comments # <<>> THEN current_comments ELSE addition

\* f"{current_comments}\n{addition}" if current_comments else addition
AppendComment(current_comments, addition) ==
    IF current_comments # <<>> THEN current_comments \o <<NL>> \o addition ELSE addition

\* f"Original Font: {font}, Style: {style} ({reason})"
SummaryLine(font, style, reason) ==
    <<"Original Font:", SP>> \o font \o <<",", SP, "Style:", SP>> \o style
    \o <<SP, "(", reason, ")">>

\* One entry of the audit log (add_replacement_to_log).
LogEntry(i, original, rf, rs) ==
    [node |-> i, original_font |-> original.font, original_style |-> original.style,
     replacement_font |-> rf, replacement_style |-> rs]

\* The loop of replace_multitext_fonts over Text1..Text5 for tool i: b is the
\* position in TextBlocks, acc carries the scene, the tags collected for the
\* tool, the count, the audit log and the history of overwritten pairs.  The tag
\* is collected before the two SetInput calls; a SetInput that raises leaves
\* the block as far as it was written, uncounted and unlogged.
RECURSIVE MultiTextLoop(_, _, _, _)
MultiTextLoop(i, b, acc, env) ==
    IF b > Len(TextBlocks) THEN acc
    ELSE
      LET text_block == TextBlocks[b]
          cur == acc.nodes[i].blocks[text_block]
          original == Pair(cur.font, StyleOrRegular(cur.style))
      IN  IF Truthy(cur.font) /\ NeedsReplacement(env.installed_fonts, original.font, original.style)
          THEN LET restore_tag ==
                       ScopedTagText(<<text_block>>,
                           create_restore_tag(original.font, original.style, env.rf, env.rs,
                                              Timestamp(env.session, acc.created, env.coarse),
                                              env.restore_id))
                   new_style ==
                       IF env.rf \in DOMAIN env.installed_fonts /\ env.rs \in env.installed_fonts[env.rf]
                       THEN env.rs
                       ELSE env.fallback
                   collected == [acc EXCEPT !.restore_tags = Append(@, restore_tag),
                                            !.created = @ + 1]
               IN  MultiTextLoop(i, b + 1,
                       IF FailsAt(env.fault, "font", i, text_block) THEN collected
                       ELSE IF FailsAt(env.fault, "style", i, text_block)
                       THEN [collected EXCEPT !.nodes[i].blocks[text_block].font = env.rf,
                                              !.replaced[<<i, text_block>>] = original]
                       ELSE [collected EXCEPT !.nodes[i].blocks[text_block] = Pair(env.rf, new_style),
                                              !.made = @ + 1,
                                              !.log = Append(@, LogEntry(i, original, env.rf, env.rs)),
                                              !.replaced[<<i, text_block>>] = original],
                       env)
          ELSE MultiTextLoop(i, b + 1, acc, env)

\* "Add restore tags to node comments" (lines 1103-1114): the collected tags go
\* to the tool's own Comments; a SetInput that raises is caught.
AddTagsToComments(i, r, env) ==
    IF r.restore_tags # <<>> /\ ~Fails(env.fault, "comments", i) /\ ~Fails(env.fault, "read", i)
    THEN [r EXCEPT !.nodes[i].comments = AppendComment(@, Join(r.restore_tags))]
    ELSE r

\* replace_multitext_fonts for tool i: the loop, then the collected tags.
replace_multitext_fonts(i, acc, env) ==
    AddTagsToComments(i, MultiTextLoop(i, 1, [acc EXCEPT !.restore_tags = <<>>], env), env)

\* A write of the attributes that lets the host's refusal leave the handler.
SetOrAbort(i, acc, env, original) ==
    IF Fails(env.fault, "font", i) \/ Fails(env.fault, "style", i)
    THEN [acc EXCEPT !.raised = TRUE]
    ELSE [acc EXCEPT !.nodes[i].font = env.rf,
                     !.nodes[i].style = env.rs,
                     !.made = @ + 1,
                     !.replaced[<<i, "">>] = original]

\* node.SetInput("Font", ...); node.SetInput("Style", ...); replacements_made += 1
\* under try/except (lines 948-953).
SetFontAndStyle(i, acc, env, original) ==
    IF Fails(env.fault, "font", i) THEN acc
    ELSE IF Fails(env.fault, "style", i)
    THEN [acc EXCEPT !.nodes[i].font = env.rf,
                     !.replaced[<<i, "">>] = original]
    ELSE [acc EXCEPT !.nodes[i].font = env.rf,
                     !.nodes[i].style = env.rs,
                     !.made = @ + 1,
                     !.replaced[<<i, "">>] = original]

\* The body of `for node in comp.GetToolList().values()` for tool i.  The reads
\* of node.Font, node.Style and parent_node.Name are outside every try block:
\* when one raises, the handler is left at that point (raised).
ReplaceNode(i, acc, env) ==
    LET node == acc.nodes[i]
        original == Pair(node.font, StyleOfInput(node.style))
    IN  IF Fails(env.fault, "inspect", i) THEN [acc EXCEPT !.raised = TRUE]
        ELSE IF node.font # None
        THEN IF NeedsReplacement(env.installed_fonts, original.font, original.style)
             THEN LET restore_tag ==
                          create_restore_tag(original.font, original.style, env.rf, env.rs,
                                             Timestamp(env.session, acc.created, env.coarse),
                                             env.restore_id)
                      parent_node == find_parent_group_or_macro(acc.nodes)
                      use_node_directly == should_use_node_comments(acc.nodes)
                      logged == [acc EXCEPT !.created = @ + 1,
                                            !.log = Append(@, LogEntry(i, original, env.rf, env.rs))]
                  IN  IF parent_node # 0 /\ ~use_node_directly
                      THEN IF Fails(env.fault, "inspect", parent_node)
                           THEN [logged EXCEPT !.raised = TRUE]
                           ELSE SetFontAndStyle(i,
                                    [logged EXCEPT !.parent = parent_node,
                                                   !.parent_replacements =
                                                       Append(@, [node |-> i, original |-> original,
                                                                  reason |-> Reason(env.installed_fonts, original.font),
                                                                  restore_tag |-> restore_tag])],
                                    env, original)
                      ELSE SetFontAndStyle(i,
                               IF Fails(env.fault, "comments", i) \/ Fails(env.fault, "read", i)
                               THEN logged
                               ELSE [logged EXCEPT !.nodes[i].comments = AppendComment(@, restore_tag)],
                               env, original)
             ELSE acc
        ELSE IF node.regid = "MultiText" THEN replace_multitext_fonts(i, acc, env)
        ELSE acc

RECURSIVE ReplaceLoop(_, _, _)
ReplaceLoop(i, acc, env) ==
    IF i > Len(acc.nodes) \/ acc.raised THEN acc
    ELSE ReplaceLoop(i + 1, ReplaceNode(i, acc, env), env)

\* "Fallback to individual nodes" (lines 996-1008): the summary line and the tag
\* of each collected replacement go to the Comments of the replaced tool.
RECURSIVE FallbackToNodes(_, _, _)
FallbackToNodes(k, acc, env) ==
    IF k > Len(acc.parent_replacements) THEN acc
    ELSE LET repl == acc.parent_replacements[k]
             node_comment == SummaryLine(repl.original.font, repl.original.style, repl.reason)
         IN  FallbackToNodes(k + 1,
                 IF Fails(env.fault, "comments", repl.node) \/ Fails(env.fault, "read", repl.node)
                 THEN acc
                 ELSE [acc EXCEPT !.nodes[repl.node].comments =
                                      AppendComment(@, node_comment \o <<NL>> \o repl.restore_tag)],
                 env)

\* "Handle parent node comments with restore tags": the summary lines, then
\* the tags, appended to the Comments of the aggregation owner; when that
\* SetInput raises, the fallback to the individual tools.  The read of the
\* owner's Comments has a try block of its own (lines 982-986): when it raises,
\* existing_comment is "" and the SetInput writes the new lines alone.
WriteParentComments(acc, env) ==
    IF acc.parent_replacements = <<>> THEN acc
    ELSE IF Fails(env.fault, "comments", acc.parent) THEN FallbackToNodes(1, acc, env)
    ELSE LET repls == acc.parent_replacements
             combined_comment ==
                 Join([k \in 1..Len(repls) |->
                         SummaryLine(repls[k].original.font, repls[k].original.style, repls[k].reason)])
             combined_restore_tags == Join([k \in 1..Len(repls) |-> repls[k].restore_tag])
             existing_comment ==
                 IF Fails(env.fault, "read", acc.parent) THEN <<>>
                 ELSE acc.nodes[acc.parent].comments
         IN  [acc EXCEPT !.nodes[acc.parent].comments =
                             AppendComment(existing_comment,
                                           combined_comment \o <<NL>> \o combined_restore_tags)]

\* The replacement style after the fallback of lines 858-862: the selected style
\* if the font has it, else the first style list(set) enumerates (any of them;
\* fallback is that choice), else "Regular".
ResolveStyle(installed_fonts, rf, rs, fallback) ==
    IF rs \in installed_fonts[rf] THEN rs
    ELSE IF installed_fonts[rf] # {} THEN fallback ELSE Regular

\* A handler that tests its target inside the locked section and returns from
\* there.
ReturnLocked(acc) == [acc EXCEPT !.lock_calls = @ + 1]

\* `return` of line 856: the handler is left before create_restoration_log and
\* before the loop over the compositions.
ReturnEarly(acc) == acc

\* comp.Unlock() (line 1010), then save_restoration_log under
\* `if replacements_made > 0` (lines 1013-1014).
UnlockAndSave(acc) == [acc EXCEPT !.unlock_calls = @ + 1, !.saved = acc.made > 0]

\* What follows the loop over the tools (lines 966-1022).  An exception that
\* left the loop left the handler: nothing after the raising statement ran.
AfterLoop(acc, env) ==
    IF acc.raised THEN acc ELSE UnlockAndSave(WriteParentComments(acc, env))

\* comp.Lock() ... comp.Unlock() of one composition (lines 882-1010), then the
\* save of the audit log.
LockedSection(acc, env) ==
    IF env.fault.kind = "toollist"
    THEN [acc EXCEPT !.lock_calls = @ + 1, !.raised = TRUE]
    ELSE AfterLoop(ReplaceLoop(1, [acc EXCEPT !.lock_calls = @ + 1], env), env)

\* What replace_missed_fonts has done before its first host call: nothing.
ReplaceIdle(ns, hist) ==
    [nodes |-> ns, parent |-> 0, parent_replacements |-> <<>>, restore_tags |-> <<>>,
     created |-> 0, made |-> 0, log |-> <<>>, replaced |-> hist,
     lock_calls |-> 0, unlock_calls |-> 0, raised |-> FALSE, saved |-> FALSE,
     restore_session_id |-> None]

\* replace_missed_fonts with the selection (font, style) of the two combo boxes:
\* the scene, the count, the audit log and the history after the invocation.
replace_missed_fonts(ns, installed_fonts, font, style, fallback, s, coarse, hist, fault) ==
    LET acc0 == ReplaceIdle(ns, hist)
    IN  IF font \notin DOMAIN installed_fonts THEN ReturnEarly(acc0)
        ELSE LET rs == ResolveStyle(installed_fonts, font, style, fallback)
                 env == [installed_fonts |-> installed_fonts, rf |-> font, rs |-> rs,
                         fallback |-> IF installed_fonts[font] # {} THEN fallback ELSE Regular,
                         restore_id |-> generate_unique_id(s), session |-> s, coarse |-> coarse,
                         fault |-> fault]
             IN  LockedSection([acc0 EXCEPT !.restore_session_id = env.restore_id], env)

-----------------------------------------------------------------------------
(* Restoration matcher *)

\* nodes_with_tags, flattened in its iteration order: the tools in tool-list
\* order, the tags of a tool in the order the decoder returned them.
SourceTags(i, tags) == [k \in 1..Len(tags) |-> [source_node |-> i, tag |-> tags[k]]]

RECURSIVE TagIndexFrom(_, _, _)
TagIndexFrom(ns, i, fault) ==
    IF i > Len(ns) THEN <<>>
    ELSE SourceTags(i, parse_all_restore_tags_from_comments(ns[i].comments, Fails(fault, "read", i)))
         \o TagIndexFrom(ns, i + 1, fault)

TagIndex(ns) == TagIndexFrom(ns, 1, NoFault)

\* No match (None, or best_match left at None).
NoMatch == [source_node |-> 0, tag |-> None]

\* A matcher that returns the last tag with the current pair.
RECURSIVE MatchLast(_, _, _, _)
MatchLast(index, k, current_font, current_style) ==
    IF k > Len(index) THEN NoMatch
    ELSE LET later == MatchLast(index, k + 1, current_font, current_style)
         IN  IF later.source_node # 0 THEN later
             ELSE IF /\ index[k].tag.replacement_font = current_font
                     /\ index[k].tag.replacement_style = current_style
                  THEN index[k]
                  ELSE NoMatch

\* A matcher that compares the font family only.
RECURSIVE MatchFamily(_, _, _, _)
MatchFamily(index, k, current_font, current_style) ==
    IF k > Len(index) THEN [source_node |-> 0, tag |-> None]
    ELSE IF index[k].tag.replacement_font = current_font THEN index[k]
         ELSE MatchFamily(index, k + 1, current_font, current_style)

\* find_matching_restore_tag as restore_original_fonts calls it (text_block is
\* left at None, so the first tag with the current pair is returned).
RECURSIVE find_matching_restore_tag(_, _, _, _)
find_matching_restore_tag(index, k, current_font, current_style) ==
    IF k > Len(index) THEN NoMatch
    ELSE IF /\ index[k].tag.replacement_font = current_font
            /\ index[k].tag.replacement_style = current_style
         THEN index[k]
         ELSE find_matching_restore_tag(index, k + 1, current_font, current_style)

\* find_matching_restore_tag_for_multitext
RECURSIVE find_matching_restore_tag_for_multitext(_, _, _, _, _)
find_matching_restore_tag_for_multitext(index, k, text_block, current_font, current_style) ==
    IF k > Len(index) THEN NoMatch
    ELSE IF /\ index[k].tag.replacement_font = current_font
            /\ index[k].tag.replacement_style = current_style
            /\ (Truthy(index[k].tag.text_block) => index[k].tag.text_block = text_block)
         THEN index[k]
         ELSE find_matching_restore_tag_for_multitext(index, k + 1, text_block,
                                                      current_font, current_style)

\* What the handler prints for a matched slot: the slot, the tag and its owner,
\* the outcome, and whether the tag's text was still in the owner's Comments.
Event(slot, m, outcome, ns) ==
    [slot |-> slot, source_node |-> m.source_node, tag |-> m.tag, outcome |-> outcome,
     removed |-> outcome = "restored" /\ Contains(ns[m.source_node].comments, m.tag.full_tag)]

\* The body executed for a matched slot (lines 547-565, 670-688): restore and
\* remove the tag when the original pair is installed, else count it as skipped.
\* A SetInput of the font or of the style that raises is caught and counted as
\* skipped, with the tag left in place; a SetInput of Comments that raises is
\* caught inside remove_specific_restore_tag, and the slot counts as restored.
\* A read of the tag owner's Name that raises does so in the print after the
\* removal and again in the except block of remove_specific_restore_tag (line
\* 839), from where it reaches the caller's except: the slot is restored, the
\* tag removed, and the slot counted as skipped.
ApplyMatch(slot, m, acc, font_list, fault) ==
    LET t == m.tag
        font_written ==
            IF slot[2] = ""
            THEN [acc EXCEPT !.nodes[slot[1]].font = t.original_font]
            ELSE [acc EXCEPT !.nodes[slot[1]].blocks[slot[2]].font = t.original_font]
        written ==
            IF slot[2] = ""
            THEN [font_written EXCEPT !.nodes[slot[1]].style = t.original_style]
            ELSE [font_written EXCEPT !.nodes[slot[1]].blocks[slot[2]].style = t.original_style]
    IN  IF ~(Truthy(t.original_font) /\ Truthy(t.original_style)) THEN acc
        ELSE IF check_font_style_availability(font_list, t.original_font, t.original_style)
        THEN IF FailsAt(fault, "font", slot[1], slot[2])
             THEN [acc EXCEPT !.skipped = @ + 1,
                              !.events = Append(@, Event(slot, m, "failed", acc.nodes))]
             ELSE IF FailsAt(fault, "style", slot[1], slot[2])
             THEN [font_written EXCEPT !.skipped = @ + 1,
                                       !.events = Append(@, Event(slot, m, "failed", acc.nodes))]
             ELSE IF Fails(fault, "inspect", m.source_node)
             THEN [written EXCEPT !.nodes[m.source_node].comments =
                                      remove_specific_restore_tag(@, t),
                                  !.skipped = @ + 1,
                                  !.events = Append(@, Event(slot, m, "failed", acc.nodes))]
             ELSE IF Fails(fault, "comments", m.source_node) \/ Fails(fault, "read", m.source_node)
             THEN [written EXCEPT !.restored = @ + 1,
                                  !.events = Append(@, [Event(slot, m, "restored", acc.nodes)
                                                           EXCEPT !.removed = FALSE])]
             ELSE [written EXCEPT !.nodes[m.source_node].comments =
                                      remove_specific_restore_tag(@, t),
                                  !.restored = @ + 1,
                                  !.events = Append(@, Event(slot, m, "restored", acc.nodes))]
        ELSE [acc EXCEPT !.skipped = @ + 1,
                         !.events = Append(@, Event(slot, m, "unavailable", acc.nodes))]

\* The loop of restore_multitext_fonts over Text1..Text5 for tool i.
RECURSIVE restore_multitext_fonts(_, _, _, _, _, _)
restore_multitext_fonts(i, b, acc, index, font_list, fault) ==
    IF b > Len(TextBlocks) THEN acc
    ELSE
      LET text_block == TextBlocks[b]
          cur == acc.nodes[i].blocks[text_block]
          m == find_matching_restore_tag_for_multitext(index, 1, <<text_block>>, cur.font,
                                                       StyleOrRegular(cur.style))
      IN  restore_multitext_fonts(i, b + 1,
              IF Truthy(cur.font) /\ m.source_node # 0
              THEN ApplyMatch(<<i, text_block>>, m, acc, font_list, fault)
              ELSE acc,
              index, font_list, fault)

\* The body of the second loop of restore_original_fonts for tool i; it runs
\* under try/except, so a read of node.Font or node.Name that raises skips the
\* tool (lines 573-574, 690-691).
RestoreNode(i, acc, index, font_list, fault) ==
    LET node == acc.nodes[i]
    IN  IF Fails(fault, "inspect", i) THEN acc
        ELSE IF node.regid = "TextPlus" /\ node.font # None
        THEN LET m == find_matching_restore_tag(index, 1, node.font, StyleOfInput(node.style))
             IN  IF m.source_node # 0
                 THEN ApplyMatch(<<i, "">>, m, [acc EXCEPT !.found = @ + 1], font_list, fault)
                 ELSE acc
        ELSE IF node.regid = "MultiText"
        THEN restore_multitext_fonts(i, 1, acc, index, font_list, fault)
        ELSE acc

RECURSIVE RestoreLoop(_, _, _, _, _)
RestoreLoop(i, acc, index, font_list, fault) ==
    IF i > Len(acc.nodes) THEN acc
    ELSE RestoreLoop(i + 1, RestoreNode(i, acc, index, font_list, fault), index, font_list, fault)

\* What restore_original_fonts has done before its first host call: nothing.
RestoreIdle(ns) ==
    [nodes |-> ns, found |-> 0, restored |-> 0, skipped |-> 0, events |-> <<>>,
     lock_calls |-> 0, unlock_calls |-> 0, raised |-> FALSE]

\* restore_original_fonts on one composition: comp.Lock(), then the tool list
\* is read (outside every try block), the tag index is built once, before the
\* first slot is looked at, the slots are restored, then comp.Unlock().
restore_original_fonts(ns, font_list, fault) ==
    LET acc0 == [RestoreIdle(ns) EXCEPT !.lock_calls = 1]
    IN  IF fault.kind = "toollist" THEN [acc0 EXCEPT !.raised = TRUE]
        ELSE [RestoreLoop(1, acc0, TagIndexFrom(ns, 1, fault), font_list, fault) EXCEPT !.unlock_calls = 1]

-----------------------------------------------------------------------------
(* The scenes and catalogs a run starts from, and the handlers as actions *)

\* Bounds of the model: tools per scene, handler invocations per run.
MaxNodes == 2
MaxOps == 2
MaxLayerOps == 4
MaxPairOps == 3
MaxFaultOps == 2
MaxOwnerOps == 1

HelveticaRegular == Pair(Helvetica, Regular)
ArialBold == Pair(Arial, Bold)
ArialItalic == Pair(Arial, Italic)

\* The font lists the host may report: Arial Bold alone, everything, Helvetica
\* alone (the last only in the runs that stack replacements).
CatalogArial == (Arial :> {Bold})
CatalogAll == (Arial :> {Bold, Italic}) @@ (Helvetica :> {Regular})
CatalogHelvetica == (Helvetica :> {Regular})
\* A font list in which Arial comes without a style name (font_data has no str key).
CatalogNoStyles == (Arial :> {})
Catalogs == {CatalogArial, CatalogAll}
LayerCatalogs == {CatalogArial, CatalogAll, CatalogHelvetica}

\* The selections the two combo boxes may hold; Arial has no Black.
Targets == {ArialBold, HelveticaRegular, Pair(Arial, Black)}

\* The tools a scene is made of; one of them comes with a user's note in its
\* Comments.
NodeVariants ==
    {TextPlusNode(HelveticaRegular, <<>>), TextPlusNode(ArialItalic, Note),
     TextPlusNode(ArialBold, <<>>), MultiTextNode(HelveticaRegular, ArialBold),
     MultiTextNode(ArialItalic, HelveticaRegular), GroupNode}

Scenes(n) == UNION {[1..k -> NodeVariants] : k \in 1..n}

\* Scenes for the longer runs: one Text+ tool, one MultiText tool or one 3D text
\* tool, for runs that stack replacements under three font lists; two Text+
\* tools that both need a replacement, for runs that restore more than once.
LayerScenes ==
    {<<TextPlusNode(p, <<>>)>> : p \in {HelveticaRegular, ArialItalic, ArialBold}}
    \cup {<<MultiTextNode(ArialItalic, HelveticaRegular)>>, <<Text3DNode(HelveticaRegular)>>}
PairScenes == [{1, 2} -> {TextPlusNode(HelveticaRegular, <<>>), TextPlusNode(ArialItalic, Note)}]

\* Scenes with containers and effects: Text+ tools at the top level or held by
\* the first tool, a MultiText tool, a group, a macro, an effect.  A tool is
\* held by a group or a macro only.
OwnerVariants ==
    {TextPlusNode(HelveticaRegular, <<>>), TextPlusNode(ArialItalic, Note),
     Inside(TextPlusNode(HelveticaRegular, <<>>), 1),
     MultiTextNode(ArialItalic, HelveticaRegular), GroupNode, MacroNode, EffectNode}
OwnerScenes ==
    {ns \in UNION {[1..k -> OwnerVariants] : k \in 1..MaxNodes} :
       \A i \in 1..Len(ns) :
          ns[i].inside # 0 => /\ ns[i].inside # i
                              /\ ns[ns[i].inside].regid \in {"GroupOperator", "MacroOperator"}}

\* Scenes for the runs in which the host refuses something: a Text+ tool, a
\* MultiText tool, two Text+ tools, a Text+ tool with a group before it (both
\* with a user's note) or after it.
FaultScenes ==
    {<<TextPlusNode(HelveticaRegular, <<>>)>>,
     <<MultiTextNode(ArialItalic, HelveticaRegular)>>,
     <<TextPlusNode(HelveticaRegular, <<>>), TextPlusNode(ArialItalic, Note)>>,
     <<[GroupNode EXCEPT !.comments = Note], TextPlusNode(ArialItalic, Note)>>,
     <<TextPlusNode(HelveticaRegular, <<>>), GroupNode>>}

\* The failures replace_missed_fonts and restore_original_fonts can meet.
HandlerFaultKinds ==
    {"none", "toollist", "inspect", "read", "comments", "font", "style", "further"}

\* The failures of the host: of the tool list, and of one tool's attribute
\* reads, Comments reads, Comments writes, font writes or style writes.
HostFaults ==
    {NoFault, Fault("toollist", 0)}
    \cup {Fault(kind, i) : kind \in {"inspect", "read", "comments", "font", "style"},
                             i \in 1..MaxNodes}
    \cup {BlockFault("font", 1, "Text1"), BlockFault("style", 1, "Text2")}

NoHistory(ns) == [sl \in SlotsOf(ns) |-> NoPair]

\* What a handler invocation saw and reported: the scene and font list it ran
\* on, the counts of its status message, the lines it printed; prev keeps the
\* kind, the skip count and the font list of the invocation before it.
Report(op, prev, pre, font_list) ==
    [op |-> op,
     nreplace |-> prev.nreplace + (IF op = "replace" THEN 1 ELSE 0),
     nrestore |-> prev.nrestore + (IF op = "restore" THEN 1 ELSE 0),
     prev |-> [op |-> prev.op, skipped |-> prev.skipped, catalog |-> prev.catalog],
     pre |-> pre, catalog |-> font_list, resolved |-> NoPair, made |-> 0, log |-> <<>>,
     found |-> 0, restored |-> 0, skipped |-> 0, events |-> <<>>,
     target |-> NoPair, fault |-> NoFault, lock_calls |-> 0, unlock_calls |-> 0,
     raised |-> FALSE, saved |-> FALSE, used |-> <<>>, restore_session_id |-> None,
     peak |-> 0]

CodecOp(op, k, before, raised) == [op |-> op, k |-> k, before |-> before, raised |-> raised]

CodecIdle ==
    /\ tag = None
    /\ pieces = <<>>
    /\ field = <<>>
    /\ decoded = <<>>
    /\ cop = CodecOp("idle", 0, <<>>, FALSE)

SceneIdle ==
    /\ nodes = <<>>
    /\ worlds = {}
    /\ catalog = CatalogArial
    /\ session = 0
    /\ replaced = <<>>
    /\ last = "idle"
    /\ budget = 0
    /\ locks = 0
    /\ faults = {}
    /\ timeline = FALSE
    /\ further = 0
    /\ further_locks = 0

SceneInitWith(scenes, font_lists, n, failures) ==
    /\ nodes \in scenes
    /\ worlds = font_lists
    /\ locks = 0
    /\ further_locks = 0
    /\ faults = failures
    /\ catalog \in font_lists
    /\ session = 0
    /\ replaced = NoHistory(nodes)
    /\ last = Report("init", [nreplace |-> 0, nrestore |-> 0, op |-> "none", skipped |-> 0,
                              catalog |-> catalog], nodes, catalog)
    /\ budget = n

\* A run of the script started with a timeline of one composition open.
SceneInit(scenes, font_lists, n, failures) ==
    /\ timeline = TRUE
    /\ further = 0
    /\ SceneInitWith(scenes, font_lists, n, failures)

Init ==
    /\ SceneInit(Scenes(MaxNodes), Catalogs, MaxOps, {NoFault})
    /\ CodecIdle

\* Longer runs on small scenes.
InitLayers ==
    /\ \/ SceneInit(LayerScenes, LayerCatalogs, MaxLayerOps, {NoFault})
       \/ SceneInit(PairScenes, Catalogs, MaxPairOps, {NoFault})
    /\ CodecIdle

\* A handler that goes on without a timeline.
TimelineIgnored(tl, idle, result) == result

\* `if not timeline: ... return` (lines 190-192, 496-499, 845-847): without a
\* timeline the handler is left with what it had done before the test (idle),
\* else it goes on to result.
TimelineOpen(tl, idle, result) == IF tl THEN result ELSE idle

\* What a handler does on the composition after the first, r being what it did
\* on the first: it gets there when it entered the loops (it called Lock) and
\* left the first composition without an exception; comp.Lock(), then
\* comp.GetToolList(), outside every try block, then the loops over a tool list
\* without text tools, then comp.Unlock().
FurtherComposition(r, n, fault) ==
    LET reached == n > 0 /\ r.lock_calls > 0 /\ ~r.raised
    IN  [reached |-> reached, raised |-> reached /\ fault.kind = "further",
         lock_calls |-> IF reached THEN 1 ELSE 0,
         unlock_calls |-> IF reached /\ fault.kind # "further" THEN 1 ELSE 0]

Max(a, b) == IF a >= b THEN a ELSE b
Held(n) == IF n > 0 THEN 1 ELSE 0

\* The largest number of compositions locked at one time during an invocation
\* that found held1 and held2 Lock() calls outstanding on the first and on the
\* further composition: before it, while it is in the first composition, and
\* while it is in the further one.
Peak(r, f, held1, held2) ==
    Max(Held(held1) + Held(held2),
        Max(IF r.lock_calls > 0 THEN 1 + Held(held2) ELSE 0,
            IF f.reached THEN 1 + Held(held1 + r.lock_calls - r.unlock_calls) ELSE 0))

\* The "Replace Missing" button with the combo boxes at (target.font, target.style).
ReplaceAt(target, fallback, coarse, fault, now) ==
    /\ last.nreplace + last.nrestore < budget
    /\ \E r \in {TimelineOpen(timeline, ReplaceIdle(nodes, replaced),
                              replace_missed_fonts(nodes, catalog, target.font, target.style,
                                                   fallback, now, coarse, replaced, fault))} :
         \E f \in {FurtherComposition(r, further, fault)} :
           /\ nodes' = r.nodes
           /\ replaced' = r.replaced
           /\ locks' = locks + r.lock_calls - r.unlock_calls
           /\ further_locks' = further_locks + f.lock_calls - f.unlock_calls
           /\ last' = [Report("replace", last, nodes, catalog)
                          EXCEPT !.made = r.made, !.log = r.log,
                                 !.target = target, !.fault = fault,
                                 !.lock_calls = r.lock_calls, !.unlock_calls = r.unlock_calls,
                                 !.raised = r.raised \/ f.raised,
                                 !.saved = r.saved /\ ~f.raised,
                                 !.peak = Peak(r, f, locks, further_locks),
                                 !.restore_session_id = r.restore_session_id,
                                 !.resolved = IF target.font \in DOMAIN catalog
                                              THEN Pair(target.font,
                                                        ResolveStyle(catalog, target.font,
                                                                     target.style, fallback))
                                              ELSE NoPair]
    /\ session' = now + 1
    /\ UNCHANGED <<catalog, budget, worlds, faults, timeline, further>>
    /\ UNCHANGED codecVars

\* The "Replace Missing" button, pressed when the clock has moved on since the
\* invocation before.
Replace(target, fallback, coarse, fault) == ReplaceAt(target, fallback, coarse, fault, session)

\* The "Replace Missing" button, pressed while datetime.now() still reads, to
\* the millisecond, what it read at the replace invocation before (a clock of
\* coarse resolution, or one that was set back).
ReplaceClockRepeats(target, fallback, coarse, fault) ==
    /\ last.nreplace > 0
    /\ ReplaceAt(target, fallback, coarse, fault, session - 1)

\* The "Restore Fonts" button.
Restore(fault) ==
    /\ last.nreplace + last.nrestore < budget
    /\ \E r \in {TimelineOpen(timeline, RestoreIdle(nodes),
                              restore_original_fonts(nodes, catalog, fault))} :
         \E f \in {FurtherComposition(r, further, fault)} :
           /\ nodes' = r.nodes
           /\ locks' = locks + r.lock_calls - r.unlock_calls
           /\ further_locks' = further_locks + f.lock_calls - f.unlock_calls
           /\ last' = [Report("restore", last, nodes, catalog)
                          EXCEPT !.found = r.found, !.restored = r.restored,
                                 !.skipped = r.skipped, !.events = r.events,
                                 !.fault = fault,
                                 !.lock_calls = r.lock_calls, !.unlock_calls = r.unlock_calls,
                                 !.raised = r.raised \/ f.raised,
                                 !.peak = Peak(r, f, locks, further_locks)]
    /\ UNCHANGED <<catalog, session, replaced, budget, worlds, faults, timeline, further>>
    /\ UNCHANGED codecVars

\* The host's font list changes between two invocations (fonts installed or
\* removed, the project moved to another machine).
SetCatalog(c) ==
    /\ last.nreplace + last.nrestore < budget
    /\ c # catalog
    /\ catalog' = c
    /\ UNCHANGED <<nodes, session, last, replaced, budget, worlds, locks, faults, timeline, further, further_locks>>
    /\ UNCHANGED codecVars

\* list(installed_fonts[font])[0]: any style of the font may be enumerated first.
Fallbacks(target) ==
    IF target.font \in DOMAIN catalog /\ target.style \notin catalog[target.font]
       /\ catalog[target.font] # {}
    THEN catalog[target.font] ELSE {Regular}

\* Whether the clock advances between two tags of one invocation; with fewer
\* than two slots to replace its resolution shows nowhere.
ClockChoices ==
    IF Cardinality({sl \in SlotsOf(nodes) :
                       NeedsReplacement(catalog, SlotPair(nodes, sl).font,
                                        SlotPair(nodes, sl).style)}) >= 2
    THEN BOOLEAN ELSE {FALSE}

\* What the host refuses during one invocation, out of what the run allows.
FaultChoices ==
    {f \in faults : f.node <= Len(nodes) /\ f.kind \in HandlerFaultKinds}

Next ==
    \/ \E target \in Targets : \E fallback \in Fallbacks(target) : \E coarse \in ClockChoices :
         \E fault \in FaultChoices :
           Replace(target, fallback, coarse, fault)
    \/ \E fault \in FaultChoices : Restore(fault)
    \/ \E c \in worlds : SetCatalog(c)

Spec == Init /\ [][Next]_vars

\* Runs in which the host may refuse a read or a write.
InitFaults ==
    /\ SceneInit(FaultScenes, Catalogs, MaxFaultOps, HostFaults)
    /\ catalog = CatalogArial
    /\ CodecIdle

SpecFaults == InitFaults /\ [][Next]_vars

\* Runs on flows with containers and effects, and on a font list with a bare
\* font.
InitOwners ==
    /\ SceneInit(OwnerScenes, Catalogs \cup {CatalogNoStyles}, MaxOwnerOps, {NoFault})
    /\ CodecIdle

SpecOwners == InitOwners /\ [][Next]_vars

SpecLayers == InitLayers /\ [][Next]_vars

\* The scan of the timeline (copy_missed_to_clipboard, refresh_fonts): the
\* report is what the handler goes on with.
Scan(fault) ==
    /\ \E r \in {TimelineOpen(timeline, ScanIdle, get_used_fonts(nodes, catalog, fault))} :
           last' = [Report("scan", last, nodes, catalog)
                       EXCEPT !.used = r.used, !.raised = r.raised, !.fault = fault]
    /\ UNCHANGED <<nodes, catalog, session, replaced, budget, worlds, locks, faults, timeline, further, further_locks>>
    /\ UNCHANGED codecVars

\* A font list the host could not deliver (get_installed_fonts returns {}).
CatalogNone == <<>>

\* Scenes for the scan: Text+ tools with and without a style, MultiText tools
\* with a sub-slot whose style is unset, a group.
ScanVariants ==
    {TextPlusNode(HelveticaRegular, <<>>), TextPlusNode(ArialItalic, Note),
     TextPlusNode(Pair(Arial, None), <<>>), MultiTextNode(ArialItalic, HelveticaRegular),
     MultiTextNode(Pair(Helvetica, None), ArialBold), GroupNode}
ScanScenes == UNION {[1..k -> ScanVariants] : k \in 1..MaxNodes}

\* The failures the scan can meet: of the tool list, of one tool's Font, Style
\* or GetAttrs, of one sub-slot's font or style input.
ScanFaultKinds == {"none", "toollist", "inspect", "getstyle", "attrs", "getfont"}
ScanFaults ==
    {NoFault, Fault("toollist", 0)}
    \cup {Fault(kind, i) : kind \in {"inspect", "getstyle", "attrs"}, i \in 1..MaxNodes}
    \cup {BlockFault("getfont", 1, "Text1"), BlockFault("getstyle", 1, "Text2")}
ScanChoices ==
    {f \in faults : f.node <= Len(nodes) /\ f.kind \in ScanFaultKinds}

\* Runs of the scan alone, under one of the font lists the host may report.
InitScan ==
    /\ SceneInit(ScanScenes, {CatalogArial, CatalogAll, CatalogNone}, 0, ScanFaults)
    /\ CodecIdle

NextScan == \E fault \in ScanChoices : Scan(fault)

SpecScan == InitScan /\ [][NextScan]_vars

MaxTimelineOps == 2

\* Runs of the three handlers of a script started with or without a timeline,
\* on a host whose tool list or whose tools may refuse to be read.
InitTimeline ==
    /\ timeline \in BOOLEAN
    /\ further = 0
    /\ SceneInitWith(FaultScenes, Catalogs, MaxTimelineOps,
                     {NoFault, Fault("toollist", 0)} \cup {Fault("inspect", i) : i \in 1..MaxNodes})
    /\ CodecIdle

NextTimeline ==
    \/ \E fault \in ScanChoices : Scan(fault)
    \/ Next

SpecTimeline == InitTimeline /\ [][NextTimeline]_vars

MaxClockOps == 3

\* Runs that stack replacements under changing font lists, on a host whose
\* clock need not have moved on when the button is pressed again.
InitClock ==
    /\ SceneInit(LayerScenes, LayerCatalogs, MaxClockOps, {NoFault})
    /\ CodecIdle

NextClock ==
    \/ Next
    \/ \E target \in Targets : \E fallback \in Fallbacks(target) : \E coarse \in ClockChoices :
         \E fault \in FaultChoices :
           ReplaceClockRepeats(target, fallback, coarse, fault)

SpecClock == InitClock /\ [][NextClock]_vars

MaxCompOps == 2

\* Runs on a timeline of two compositions, the second without text tools, on a
\* host whose second composition may refuse to list its tools.
InitComps ==
    /\ timeline = TRUE
    /\ further = 1
    /\ SceneInitWith(FaultScenes, Catalogs, MaxCompOps, {NoFault, Fault("further", 0)})
    /\ CodecIdle

SpecComps == InitComps /\ [][Next]_vars

-----------------------------------------------------------------------------
(* The tag codec on its own: encode and decode one tag; decode a field that *)
(* was assembled from pieces and remove a decoded tag from it                *)

MaxPieces == 3

\* The values a field of a RestorationTag is drawn from: plain names, a name
\* with an inner space, and values the wire format has no room for (an outer
\* space, a '|' in the replacement font, an empty style).
TagDomain ==
    [original_font : {Helvetica, <<"Open", SP, "Sans">>, <<SP, "Futura">>},
     original_style : {Regular, <<>>},
     replacement_font : {Arial, <<"Noto", BAR, "Sans">>},
     replacement_style : {Bold, <<"Semi", SP, "Bold", SP>>},
     timestamp : {Timestamp(0, 0, FALSE)},
     restore_id : {generate_unique_id(0)},
     text_block : {None, <<"Text1">>}]

\* The text the replacement engine embeds for tag t (lines 904-908, 1067-1073).
EncodeTag(t) ==
    LET body == create_restore_tag(t.original_font, t.original_style, t.replacement_font,
                                   t.replacement_style, t.timestamp, t.restore_id)
    IN  IF t.text_block = None THEN body ELSE ScopedTagText(t.text_block, body)

InitTag ==
    /\ SceneIdle
    /\ tag \in TagDomain
    /\ pieces = <<>>
    /\ field = <<>>
    /\ decoded = <<>>
    /\ cop = CodecOp("idle", 0, <<>>, FALSE)

Encode ==
    /\ cop.op = "idle"
    /\ field' = EncodeTag(tag)
    /\ cop' = CodecOp("encoded", 0, field, FALSE)
    /\ UNCHANGED <<tag, pieces, decoded>>
    /\ UNCHANGED sceneVars

\* parse_all_restore_tags_from_comments on a tool whose Comments is field;
\* raises says whether the host's GetInput raises.
Decode(raises) ==
    /\ cop.op \in {"encoded", "assembled"}
    /\ decoded' = parse_all_restore_tags_from_comments(field, raises)
    /\ cop' = CodecOp("decoded", 0, field, raises)
    /\ UNCHANGED <<tag, pieces, field>>
    /\ UNCHANGED sceneVars

NextTag == Encode \/ Decode(FALSE)

SpecTag == InitTag /\ [][NextTag]_vars

\* Two tags as the engine writes them for Text+ tools, and the first one again
\* as written for sub-slot Text1 of a MultiText tool.
TagOne == create_restore_tag(Helvetica, Regular, Arial, Bold, Timestamp(0, 0, FALSE), generate_unique_id(0))
TagTwo == create_restore_tag(Arial, Italic, Arial, Bold, Timestamp(0, 1, FALSE), generate_unique_id(0))
TagOneScoped == ScopedTagText(<<"Text1">>, TagOne)

\* Blocks a hand or another tool can leave in a Comments field: a block with no
\* replaced_with line, and blocks whose replaced_with value has an empty side.
TagNoReplacement ==
    <<MarkerOpen, NL, KeyOriginalFont, SP>> \o Helvetica \o <<NL, KeyOriginalStyle, SP>> \o Regular
    \o <<NL, KeyTimestamp, SP>> \o Timestamp(0, 0, FALSE) \o <<NL, MarkerClose>>
TagEmptyStyle == create_restore_tag(Helvetica, Regular, Arial, <<>>, Timestamp(0, 0, FALSE), generate_unique_id(0))
TagEmptyFont == create_restore_tag(Helvetica, Regular, <<>>, Bold, Timestamp(0, 0, FALSE), generate_unique_id(0))

\* A block that was cut off before its closing marker.
TagUnclosed ==
    <<MarkerOpen, NL, KeyOriginalFont, SP>> \o Arial \o <<NL, KeyOriginalStyle, SP>> \o Italic
    \o <<NL, KeyReplacedWith, SP>> \o Helvetica \o <<BAR>> \o Regular

\* What a Comments field is assembled from, one piece per line group: tags,
\* a line of prose, an empty line, an opening marker without its closing one,
\* a closing marker alone, a TextBlock line alone, the incomplete blocks and
\* the block without its closing marker.
ProsePieces == {Note}
TagPieces == {TagOne, TagTwo, TagOneScoped}
IncompletePieces == {TagNoReplacement, TagEmptyStyle, TagEmptyFont}
Palette ==
    TagPieces \cup ProsePieces \cup IncompletePieces
    \cup {<<>>, <<MarkerOpen>>, <<MarkerClose>>, <<KeyTextBlock, SP, "Text1">>, TagUnclosed}

InitField ==
    /\ SceneIdle
    /\ tag = None
    /\ pieces \in UNION {[1..n -> Palette] : n \in 0..MaxPieces}
    /\ field = Join(pieces)
    /\ decoded = <<>>
    /\ cop = CodecOp("assembled", 0, <<>>, FALSE)

\* remove_specific_restore_tag on the k-th tag of the last decode.
Remove(k) ==
    /\ cop.op = "decoded"
    /\ ~cop.raised
    /\ k \in 1..Len(decoded)
    /\ field' = remove_specific_restore_tag(field, decoded[k])
    /\ cop' = CodecOp("removed", k, field, FALSE)
    /\ UNCHANGED <<tag, pieces, decoded>>
    /\ UNCHANGED sceneVars

NextField ==
    \/ \E raises \in BOOLEAN : Decode(raises)
    \/ \E k \in 1..MaxPieces : Remove(k)

SpecField == InitField /\ [][NextField]_vars

-----------------------------------------------------------------------------
(* The line scanner of the decoder, one iteration of its outer loop at a time: *)
(* cop.k is the line index i (lines counted from 1), decoded the list tags     *)

\* A bare-marker branch that leaves the index where it is when the block has
\* no closing marker.
MarkerBranchStays(lines, i, tags) ==
    LET j == NextLineWith(lines, MarkerClose, i)
    IN  IF j <= Len(lines)
        THEN [i |-> j + 1, tags |-> AppendIfComplete(tags, TagData(SubSeq(lines, i, j), None))]
        ELSE [i |-> i, tags |-> tags]

\* The branch `if line.startswith('TextBlock:')` (lines 741-781): i and tags at
\* the end of the iteration.  The index was moved to the next line with an
\* opening marker (lines 744-746); after a closed block it is j + 1 (line 780),
\* else the branch is left and line 814 adds 1.
TextBlockBranch(lines, i, tags) ==
    LET text_block == Strip(ReplaceAll(Strip(lines[i]), <<KeyTextBlock>>))
        o == NextLineWith(lines, MarkerOpen, i + 1)
        j == NextLineWith(lines, MarkerClose, o)
    IN  IF o <= Len(lines) /\ j <= Len(lines)
        THEN [i |-> j + 1, tags |-> AppendIfComplete(tags, TagData(SubSeq(lines, o, j), text_block))]
        ELSE [i |-> o + 1, tags |-> tags]

\* The branch `elif '[PostFlows_FONT_RESTORE]' in line` (lines 782-812): after
\* a closed block i is j + 1 (line 811), else line 814 adds 1.
MarkerBranch(lines, i, tags) ==
    LET j == NextLineWith(lines, MarkerClose, i)
    IN  IF j <= Len(lines)
        THEN [i |-> j + 1, tags |-> AppendIfComplete(tags, TagData(SubSeq(lines, i, j), None))]
        ELSE [i |-> i + 1, tags |-> tags]

\* The pieces the scanned fields are assembled from.
ScannerPalette ==
    {TagOne, TagOneScoped, TagUnclosed, Note, <<MarkerOpen>>, <<MarkerClose>>,
     <<KeyTextBlock, SP, "Text1">>}

\* lines = comments.split('\n'); i = 0 (lines 733-735): cop.before holds lines.
InitScanner ==
    /\ SceneIdle
    /\ tag = None
    /\ pieces \in UNION {[1..n -> ScannerPalette] : n \in 0..MaxPieces}
    /\ field = Join(pieces)
    /\ decoded = <<>>
    /\ cop = CodecOp("scanning", 1, Split(field), FALSE)

\* The loop is at line i of lines.
AtLine(i) ==
    /\ cop.op = "scanning"
    /\ cop.k = i
    /\ i <= Len(cop.before)

\* line = lines[i].strip() (line 738)
LineAt(i) == Strip(cop.before[i])

Iterate(r) ==
    /\ decoded' = r.tags
    /\ cop' = [cop EXCEPT !.k = r.i]
    /\ UNCHANGED <<tag, pieces, field>>
    /\ UNCHANGED sceneVars

ScanTextBlockLine(i) ==
    /\ AtLine(i)
    /\ StartsWith(LineAt(i), <<KeyTextBlock>>)
    /\ \E r \in {TextBlockBranch(cop.before, i, decoded)} : Iterate(r)

ScanMarkerLine(i) ==
    /\ AtLine(i)
    /\ ~StartsWith(LineAt(i), <<KeyTextBlock>>)
    /\ Contains(LineAt(i), <<MarkerOpen>>)
    /\ \E r \in {MarkerBranch(cop.before, i, decoded)} : Iterate(r)

\* Neither branch: i += 1 (line 814).
ScanOtherLine(i) ==
    /\ AtLine(i)
    /\ ~StartsWith(LineAt(i), <<KeyTextBlock>>)
    /\ ~Contains(LineAt(i), <<MarkerOpen>>)
    /\ Iterate([i |-> i + 1, tags |-> decoded])

\* `while i < len(lines)` is false: return tags (line 819).
ScanReturn ==
    /\ cop.op = "scanning"
    /\ cop.k > Len(cop.before)
    /\ cop' = [cop EXCEPT !.op = "scanned"]
    /\ UNCHANGED <<tag, pieces, field, decoded>>
    /\ UNCHANGED sceneVars

\* No field of the scanner runs has more lines: a piece has at most eight.
MaxLines == 8 * MaxPieces

NextScanner ==
    \/ \E i \in 1..MaxLines : ScanTextBlockLine(i)
    \/ \E i \in 1..MaxLines : ScanMarkerLine(i)
    \/ \E i \in 1..MaxLines : ScanOtherLine(i)
    \/ ScanReturn

\* One iteration of the outer loop at line i: the branch the line selects.
ScanStep(lines, i, tags) ==
    IF StartsWith(Strip(lines[i]), <<KeyTextBlock>>) THEN TextBlockBranch(lines, i, tags)
    ELSE IF Contains(Strip(lines[i]), <<MarkerOpen>>) THEN MarkerBranch(lines, i, tags)
    ELSE [i |-> i + 1, tags |-> tags]

\* The interpreter runs on: weak fairness of the scanner's steps, WF_vars(NextScanner)
\* written out, a step being possible exactly as long as the scanner has not
\* returned.
ScannerRunsOn == []<>(cop.op # "scanning") \/ []<><<NextScanner>>_vars

SpecScanner == InitScanner /\ [][NextScanner]_vars /\ ScannerRunsOn

-----------------------------------------------------------------------------
(* The decoder on a block whose key: value lines come in any order *)

\* The lines between the two markers of the block the engine writes for tag t.
KeyLines(t) ==
    LET body == Split(create_restore_tag(t.original_font, t.original_style, t.replacement_font,
                                         t.replacement_style, t.timestamp, t.restore_id))
    IN  SubSeq(body, 2, Len(body) - 1)

\* The orders n lines can be put in.
Orders(n) == {p \in [1..n -> 1..n] : \A a, b \in 1..n : p[a] = p[b] => a = b}

Reorder(lines, p) == [k \in 1..Len(lines) |-> lines[p[k]]]

\* A tag, and its key: value lines in some order.
InitOrder ==
    /\ SceneIdle
    /\ tag \in TagDomain
    /\ pieces \in {Reorder(KeyLines(tag), p) : p \in Orders(Len(KeyLines(tag)))}
    /\ field = <<>>
    /\ decoded = <<>>
    /\ cop = CodecOp("idle", 0, <<>>, FALSE)

\* The block of the tag with its lines in the chosen order, between the two
\* markers, after the TextBlock line when the tag belongs to a sub-slot.
EncodeReordered ==
    /\ cop.op = "idle"
    /\ field' = LET body == Join(<<<<MarkerOpen>>>> \o pieces \o <<<<MarkerClose>>>>)
                IN  IF tag.text_block = None THEN body ELSE ScopedTagText(tag.text_block, body)
    /\ cop' = CodecOp("encoded", 0, field, FALSE)
    /\ UNCHANGED <<tag, pieces, decoded>>
    /\ UNCHANGED sceneVars

NextOrder == EncodeReordered \/ Decode(FALSE)

SpecOrder == InitOrder /\ [][NextOrder]_vars

-----------------------------------------------------------------------------
(* Properties of the restore handler, stated on the state a handler leaves   *)
(* (nodes), the scene it ran on (last.pre), the font list it saw              *)
(* (last.catalog), its counts and its printed lines (last.events)             *)

Range(f) == {f[x] : x \in DOMAIN f}

\* pair is installed in font list c
Installed(c, pair) == pair.font \in DOMAIN c /\ pair.style \in c[pair.font]

\* The slots a replacement wrote during the run
ReplacedSlots == {sl \in DOMAIN replaced : replaced[sl] # NoPair}

\* The events of the last restore that applied a tag
Applied == {k \in 1..Len(last.events) : last.events[k].outcome = "restored"}

\* The number of tags embedded in scene ns
RECURSIVE TagCountFrom(_, _)
TagCountFrom(ns, i) ==
    IF i > Len(ns) THEN 0
    ELSE Len(parse_all_restore_tags_from_comments(ns[i].comments, FALSE)) + TagCountFrom(ns, i + 1)

TagCount(ns) == TagCountFrom(ns, 1)

\* The tag the restore handler's lookup gives for slot sl of scene ns, index
\* being the tags embedded in ns
MatchOf(index, ns, sl) ==
    IF sl[2] = ""
    THEN find_matching_restore_tag(index, 1, ns[sl[1]].font, StyleOfInput(ns[sl[1]].style))
    ELSE find_matching_restore_tag_for_multitext(index, 1, <<sl[2]>>, ns[sl[1]].blocks[sl[2]].font,
                                                 StyleOrRegular(ns[sl[1]].blocks[sl[2]].style))

\* C1: after one replacement followed by one restore, run when every original
\* pair of a replaced slot is installed, every replaced slot holds the pair it
\* held before the replacement.
C1_RestoreUndoesReplace ==
    (/\ last.op = "restore"
     /\ last.nreplace = 1
     /\ last.nrestore = 1
     /\ \A sl \in ReplacedSlots : Installed(last.catalog, replaced[sl]))
    => \A sl \in ReplacedSlots : SlotPair(nodes, sl) = replaced[sl]

\* C4: whenever restore applies a tag that carries a slot name, the slot it
\* writes has that name; in particular it is not the unnamed slot of a Text+
\* tool.
C4_ScopedTagOnlyOnItsSlot ==
    last.op = "restore"
    => \A k \in Applied :
         Truthy(last.events[k].tag.text_block)
         => last.events[k].tag.text_block = <<last.events[k].slot[2]>>

\* C5: a slot no replacement wrote holds after a restore the pair it held
\* before it.
C5_UntouchedSlotsKept ==
    last.op = "restore"
    => \A sl \in DOMAIN replaced \ ReplacedSlots : SlotPair(nodes, sl) = SlotPair(last.pre, sl)

\* C6: within one restore invocation a tag is applied to at most as many slots
\* as there were copies of it in its owner's Comments when the invocation began.
C6_TagUsedOnce ==
    last.op = "restore"
    => \A k \in Applied :
         Cardinality({j \in Applied : /\ last.events[j].source_node = last.events[k].source_node
                                      /\ last.events[j].tag = last.events[k].tag})
         <= Count(last.pre[last.events[k].source_node].comments, last.events[k].tag.full_tag)

\* The slots of the scene the last restore ran on whose lookup gave a tag with
\* an original pair that was not installed
UnavailableIn(index) ==
    {sl \in SlotsOf(last.pre) :
        /\ MatchOf(index, last.pre, sl).source_node # 0
        /\ ~Installed(last.catalog, Pair(MatchOf(index, last.pre, sl).tag.original_font,
                                         MatchOf(index, last.pre, sl).tag.original_style))}

UnavailableSlots == UnavailableIn(TagIndex(last.pre))

\* The tag the lookup gave is in its owner's Comments in as many copies as
\* before the last invocation, at least one.
TagKept(m) ==
    /\ Count(nodes[m.source_node].comments, m.tag.full_tag) >= 1
    /\ Count(nodes[m.source_node].comments, m.tag.full_tag)
         = Count(last.pre[m.source_node].comments, m.tag.full_tag)

\* Every slot of unavailable keeps its pair and its tag, and the invocation
\* counted each of them as skipped.
SkippedUntouched(index, unavailable) ==
    /\ \A sl \in unavailable :
         /\ SlotPair(nodes, sl) = SlotPair(last.pre, sl)
         /\ TagKept(MatchOf(index, last.pre, sl))
    /\ last.skipped = Cardinality(unavailable)

\* C7: a slot whose matching tag names an original pair that is not installed
\* keeps its pair, its tag stays in its owner's Comments in as many copies as
\* before, and the skipped count of the invocation is the number of such slots.
C7_TargetUnavailable ==
    last.op = "restore" => SkippedUntouched(TagIndex(last.pre), UnavailableIn(TagIndex(last.pre)))

\* a restore met two slots whose tags name an original pair that is not
\* installed, one of them a sub-slot of a MultiText tool
C7_Witness ==
    /\ last.op = "restore"
    /\ Cardinality(UnavailableSlots) >= 2
    /\ \E sl \in UnavailableSlots : sl[2] # ""

\* C8: the number of tags that left the scene during a restore invocation is
\* its restored count.
C8_TagsGoneEqualsRestored ==
    last.op = "restore" => TagCount(last.pre) - TagCount(nodes) = last.restored

\* No slot of ns holds the replacement pair of a tag embedded in ns
NoSlotMatches(ns) ==
    LET index == TagIndex(ns)
    IN  \A sl \in SlotsOf(ns) : \A k \in 1..Len(index) :
            SlotPair(ns, sl) # Pair(index[k].tag.replacement_font, index[k].tag.replacement_style)

\* C9 as stated: a restore on a scene where no slot matches a tag changes
\* nothing, and neither does a restore that follows, under the same font list,
\* a restore that skipped no matched slot.
C9_NoMatchOrSecondRunNoOp ==
    last.op = "restore"
    => /\ NoSlotMatches(last.pre) => nodes = last.pre
       /\ (/\ last.prev.op = "restore"
           /\ last.prev.skipped = 0
           /\ last.prev.catalog = last.catalog) => nodes = last.pre

\* C9, amended: a restore on a scene where no slot holds the replacement pair
\* of an embedded tag changes no slot and no Comments text and reports nothing
\* found, restored or skipped.
C9_NoMatchNoOp ==
    (last.op = "restore" /\ NoSlotMatches(last.pre))
    => /\ nodes = last.pre
       /\ last.found = 0
       /\ last.restored = 0
       /\ last.skipped = 0

\* a restore ran on a scene that holds tags none of which matches a slot
C9_Witness ==
    /\ last.op = "restore"
    /\ NoSlotMatches(last.pre)
    /\ TagCount(last.pre) >= 1
    /\ SlotsOf(last.pre) # {}

-----------------------------------------------------------------------------
(* Properties of the codec *)

TagFields == {"original_font", "original_style", "replacement_font", "replacement_style",
              "text_block", "full_tag"}

\* dict.get(key)
TagGet(d, key) == IF key \in DOMAIN d THEN d[key] ELSE None

\* A value the wire format carries as it is: not empty, one line, no space at
\* either end
Plain(v) == v # <<>> /\ Strip(v) = v /\ ~Contains(v, <<NL>>)

PlainTag(t) ==
    /\ Plain(t.original_font)
    /\ Plain(t.original_style)
    /\ Plain(t.replacement_font)
    /\ Plain(t.replacement_style)
    /\ ~Contains(t.replacement_font, <<BAR>>)

C3_RemoveLeavesTheRest ==
    cop.op = "removed"
    => LET gone == decoded[cop.k].full_tag
       IN  /\ \A j \in (1..Len(decoded)) \ {cop.k} :
                Count(field, decoded[j].full_tag)
                  = Count(cop.before, decoded[j].full_tag)
                    - (IF decoded[j].full_tag = gone /\ Contains(cop.before, gone) THEN 1 ELSE 0)
           /\ \A p \in ProsePieces : Count(field, p) = Count(cop.before, p)

\* C10: whatever the Comments field holds, and also when reading it raises,
\* decoding returns a list, each element a tag with the six fields of a decoded
\* tag and a non-empty original pair.
C10_DecodeTotal ==
    cop.op = "decoded"
    => /\ \A k \in 1..Len(decoded) :
            /\ DOMAIN decoded[k] = TagFields
            /\ Truthy(decoded[k].original_font)
            /\ Truthy(decoded[k].original_style)
       /\ cop.raised => decoded = <<>>
       /\ Len(decoded) <= Len(pieces)

\* a field with an opening marker that is never closed before the next tag, and
\* a closing marker of its own, was decoded to at least one tag
C10_Witness ==
    /\ cop.op = "decoded"
    /\ ~cop.raised
    /\ <<MarkerOpen>> \in Range(pieces)
    /\ <<MarkerClose>> \in Range(pieces)
    /\ Len(decoded) >= 1

\* C11: every tag the decoder returns has a non-empty original font, original
\* style, replacement font and replacement style; a block with no replaced_with
\* line, or with an empty side of font|style, yields no tag.
C11_DecodedTagComplete ==
    cop.op = "decoded"
    => \A k \in 1..Len(decoded) :
         /\ Truthy(TagGet(decoded[k], "original_font"))
         /\ Truthy(TagGet(decoded[k], "original_style"))
         /\ Truthy(TagGet(decoded[k], "replacement_font"))
         /\ Truthy(TagGet(decoded[k], "replacement_style"))

-----------------------------------------------------------------------------
(* Properties of the replacement engine, stated on the state a replace        *)
(* invocation leaves (nodes, locks), the scene and font list it ran on        *)
(* (last.pre, last.catalog), the selection and its resolution (last.target,   *)
(* last.resolved) and what the host refused (last.fault)                      *)

\* The slots of the scene the last invocation ran on whose font the font list
\* lacks, or whose style the font list lacks for that font.
MissingSlots == {sl \in SlotsOf(last.pre) : ~Installed(last.catalog, SlotPair(last.pre, sl))}

\* The positions in index, the tags embedded in a scene, of the tags that carry
\* the restore id of the last replace invocation.
TagsOfLastReplace(index) ==
    {k \in 1..Len(index) :
       Contains(index[k].tag.full_tag, <<KeyRestoreId, SP>> \o generate_unique_id(session - 1))}

\* index holds one tag of the last replace invocation per missing slot, each
\* with the original pair (and the sub-slot name) of a missing slot.
OneTagPerMissingSlot(index) ==
    /\ Cardinality(TagsOfLastReplace(index)) = Cardinality(MissingSlots)
    /\ \A k \in TagsOfLastReplace(index) :
         \E sl \in MissingSlots :
            /\ index[k].tag.original_font = SlotPair(last.pre, sl).font
            /\ index[k].tag.original_style = SlotPair(last.pre, sl).style
            /\ sl[2] # "" => index[k].tag.text_block = <<sl[2]>>

\* A replace invocation that got past the test of its target and met no host
\* failure.
ReplaceRan == last.op = "replace" /\ last.resolved # NoPair /\ last.fault = NoFault

\* C12: a replace invocation replaces a slot, simple or composite, exactly when
\* its font is not in the font list or its style is not in that font's styles;
\* every other slot keeps its pair, and the invocation embeds one tag per
\* replaced slot, each with the original pair of a replaced slot, and no other.
C12_ClassificationRule ==
    ReplaceRan
    => /\ \A sl \in SlotsOf(last.pre) :
            IF sl \in MissingSlots
            THEN SlotPair(nodes, sl) = last.resolved
            ELSE SlotPair(nodes, sl) = SlotPair(last.pre, sl)
       /\ last.made = Cardinality(MissingSlots)
       /\ TagsOfLastReplace(TagIndex(last.pre)) = {}
       /\ OneTagPerMissingSlot(TagIndex(nodes))

\* a replace ran on a scene with a slot whose style alone is missing, a
\* composite slot that is missing, and a slot that is installed
C12_Witness ==
    /\ ReplaceRan
    /\ \E sl \in MissingSlots : SlotPair(last.pre, sl).font \in DOMAIN last.catalog
    /\ \E sl \in MissingSlots : sl[2] # "" /\ SlotPair(nodes, sl) = last.resolved
    /\ SlotsOf(last.pre) \ MissingSlots # {}

\* index, the tags embedded in a scene, holds a tag with original pair orig and
\* replacement pair now.
Records(index, orig, now) ==
    \E k \in 1..Len(index) :
       /\ index[k].tag.original_font = orig.font
       /\ index[k].tag.original_style = orig.style
       /\ index[k].tag.replacement_font = now.font
       /\ index[k].tag.replacement_style = now.style

\* The slots whose pair the last invocation changed.
ChangedSlots == {sl \in SlotsOf(last.pre) : SlotPair(nodes, sl) # SlotPair(last.pre, sl)}

\* index holds, for every slot of slots, a tag with the pair the slot held
\* before the last invocation as original and the pair it holds now as
\* replacement.
SlotsRecorded(index, slots) ==
    \A sl \in slots : Records(index, SlotPair(last.pre, sl), SlotPair(nodes, sl))

\* C13: after a replace invocation in which every host write succeeded, every
\* slot it replaced holds the resolved target pair, and some Comments field of
\* the composition holds a tag whose original pair is the pair the slot held
\* before and whose replacement pair is the pair the slot holds now.
C13_ReplacedSlotTagged ==
    ReplaceRan
    => /\ \A sl \in ChangedSlots \cup MissingSlots : SlotPair(nodes, sl) = last.resolved
       /\ SlotsRecorded(TagIndex(nodes), ChangedSlots \cup MissingSlots)

\* a replace whose selected style the target font lacks changed a slot of a
\* tool whose Comments already held text
C13_Witness ==
    /\ ReplaceRan
    /\ last.target.style \notin last.catalog[last.target.font]
    /\ \E sl \in ChangedSlots : last.pre[sl[1]].comments # <<>>

\* C14: a replace invocation whose selected font is not in the font list
\* changes no slot, writes no Comments field, calls comp.Lock() on no
\* composition and does not save the audit log.
C14_UninstalledTargetNoOp ==
    (last.op = "replace" /\ last.target.font \notin DOMAIN last.catalog)
    => /\ nodes = last.pre
       /\ last.lock_calls = 0
       /\ last.unlock_calls = 0
       /\ ~last.saved
       /\ last.made = 0
       /\ last.log = <<>>
       /\ ~last.raised

\* a replace with a target that is not installed ran on a scene with a missing
\* slot, on a host whose tool list would have raised
C14_Witness ==
    /\ last.op = "replace"
    /\ last.target.font \notin DOMAIN last.catalog
    /\ MissingSlots # {}
    /\ last.fault.kind = "toollist"

\* Every tag of the last replace invocation in index records a replacement
\* style out of styles.
TagsRecordStyleIn(index, styles) ==
    \A k \in TagsOfLastReplace(index) : index[k].tag.replacement_style \in styles

\* C15: the style a replace invocation commits to a replaced slot, and the
\* replacement style it records in a tag, is a style the font list has for the
\* replacement font, also when the selected style was not one of them.
C15_CommittedStyleValid ==
    ReplaceRan
    => /\ \A sl \in ChangedSlots : SlotPair(nodes, sl).style \in last.catalog[last.target.font]
       /\ TagsRecordStyleIn(TagIndex(nodes), last.catalog[last.target.font])

\* The type ids of the host's two containers.
RealContainers == {"GroupOperator", "MacroOperator"}

\* C16: when no tool of the composition is a GroupOperator or a MacroOperator,
\* a replace invocation writes the tag of every replaced Text+ tool into that
\* tool's own Comments, and the Comments of every tool without a replaced slot
\* stay as they were.
C16_OwnCommentsWithoutContainer ==
    (ReplaceRan /\ \A i \in 1..Len(last.pre) : last.pre[i].regid \notin RealContainers)
    => \A i \in 1..Len(nodes) :
         /\ <<i, "">> \in MissingSlots
              => Records(TagIndex(<<nodes[i]>>), SlotPair(last.pre, <<i, "">>), SlotPair(nodes, <<i, "">>))
         /\ (\A sl \in MissingSlots : sl[1] # i) => nodes[i].comments = last.pre[i].comments

\* The tools that may hold the tag of a slot of tool i: the tool itself, and
\* the group or macro that holds the tool.
AllowedOwners(i) ==
    {i} \cup {j \in 1..Len(last.pre) :
                last.pre[j].regid \in RealContainers /\ last.pre[i].inside = j}

\* C17: the tag of every slot a replace invocation replaced is in the Comments
\* of the replaced tool itself or of a GroupOperator or MacroOperator that
\* holds the tool, and the invocation writes the Comments of no other tool.
C17_OwnerIsSelfOrContainer ==
    ReplaceRan
    => /\ \A sl \in MissingSlots :
            \E j \in AllowedOwners(sl[1]) :
               Records(TagIndex(<<nodes[j]>>), SlotPair(last.pre, sl), SlotPair(nodes, sl))
       /\ \A j \in 1..Len(nodes) :
            nodes[j].comments # last.pre[j].comments
            => \E sl \in MissingSlots : j \in AllowedOwners(sl[1])

\* C18: a replace invocation only appends to Comments fields: for every tool,
\* the Comments it held before the invocation are a prefix of the Comments it
\* holds after it, whichever write put the tag there (own field, owner's field,
\* MultiText field, fallback to the tool after a refused write to the owner).
C18_CommentsOnlyAppended ==
    last.op = "replace"
    => \A i \in 1..Len(nodes) : StartsWith(nodes[i].comments, last.pre[i].comments)

\* C19: every comp.Lock() of a replace or restore invocation is matched by a
\* comp.Unlock() before the invocation is left, also when reading a tool's
\* Font, Style or Name, or the tool list, raises while the lock is held.
C19_LockReleased ==
    last.op \in {"replace", "restore"}
    => last.unlock_calls = last.lock_calls /\ locks = 0

\* index, the tags embedded in a scene, holds a tag with original pair orig.
RecordsOriginal(index, orig) ==
    \E k \in 1..Len(index) :
       index[k].tag.original_font = orig.font /\ index[k].tag.original_style = orig.style

\* Every tag of the last replace invocation in index has the original pair of
\* a slot the invocation changed.
TagsBelongToChangedSlots(index) ==
    \A k \in TagsOfLastReplace(index) :
       \E sl \in ChangedSlots :
          /\ index[k].tag.original_font = SlotPair(last.pre, sl).font
          /\ index[k].tag.original_style = SlotPair(last.pre, sl).style

\* C20: when no composition lock is held after a replace invocation, every
\* slot it changed has an embedded tag with the slot's original pair, and every
\* tag it embedded belongs to a slot it changed, also when the host refused a
\* write of an attribute or of a Comments field.
C20_TagAndAttributeInStep ==
    (last.op = "replace" /\ locks = 0)
    => /\ \A sl \in ChangedSlots : RecordsOriginal(TagIndex(nodes), SlotPair(last.pre, sl))
       /\ TagsBelongToChangedSlots(TagIndex(nodes))

\* The missing slots whose own write the host refused during the last
\* invocation: the slot whose font or style input refused the write, resp. the
\* slots of the tool whose Comments input refused it.
RefusedSlots ==
    {sl \in MissingSlots :
       IF last.fault.kind = "comments" THEN sl[1] = last.fault.node
       ELSE FailsAt(last.fault, last.fault.kind, sl[1], sl[2])}

\* A replace invocation that got past the test of its target and during which
\* the host refused a write of a font, of a style or of a Comments field.
WriteRefused ==
    /\ last.op = "replace"
    /\ last.resolved # NoPair
    /\ last.fault.kind \in {"font", "style", "comments"}

\* In index, the tags embedded in the scene, every slot of others has a tag
\* with its original pair and the resolved pair, and the last replace
\* invocation left at least as many tags as others has slots.
SiblingsTagged(index, others) ==
    /\ \A sl \in others : Records(index, SlotPair(last.pre, sl), last.resolved)
    /\ Cardinality(TagsOfLastReplace(index)) >= Cardinality(others)

\* C21: when the host refuses the attribute write or the Comments write of one
\* slot during a replace invocation, every other slot that needs a replacement
\* holds the resolved target pair after the invocation and has a tag with its
\* original pair, whether it was processed before or after the refusal, and
\* the reported count covers these slots.
C21_RefusalDoesNotAbortSiblings ==
    WriteRefused
    => /\ \A sl \in MissingSlots \ RefusedSlots : SlotPair(nodes, sl) = last.resolved
       /\ SiblingsTagged(TagIndex(nodes), MissingSlots \ RefusedSlots)
       /\ last.made >= Cardinality(MissingSlots \ RefusedSlots)
       /\ ~last.raised

\* the font write of sub-slot Text1 of a MultiText tool was refused, and its
\* sub-slot Text2, processed after it, was replaced
C21_Witness ==
    /\ WriteRefused
    /\ last.fault = BlockFault("font", 1, "Text1")
    /\ <<1, "Text1">> \in RefusedSlots
    /\ <<1, "Text2">> \in MissingSlots \ RefusedSlots
    /\ SlotPair(nodes, <<1, "Text1">>) = SlotPair(last.pre, <<1, "Text1">>)
    /\ SlotPair(nodes, <<1, "Text2">>) = last.resolved

\* The scene without tool i.
Without(ns, i) == [j \in 1..(Len(ns) - 1) |-> IF j < i THEN ns[j] ELSE ns[j + 1]]

\* Report `used` holds everything report `other` holds.
Covers(used, other) ==
    \A f \in DOMAIN other :
        /\ f \in DOMAIN used
        /\ other[f].used_styles \subseteq used[f].used_styles
        /\ other[f].missing_styles \subseteq used[f].missing_styles
        /\ other[f].font_missing = used[f].font_missing

ElementFailed ==
    /\ last.op = "scan"
    /\ timeline
    /\ last.fault.kind \in {"inspect", "getstyle", "attrs", "getfont"}

\* C22: when the inspection of one tool fails during get_used_fonts (its Font,
\* its Style, its attributes or one sub-slot input cannot be read), the scan
\* completes and its report holds the usage of every other tool, as the scan of
\* the scene without the failing tool reports it.
C22_ScanSkipsFailingElement ==
    ElementFailed
    => /\ ~last.raised
       /\ Covers(last.used, get_used_fonts(Without(nodes, last.fault.node), catalog, NoFault).used)

\* The pairs in use in scene ns, read off the scene slot by slot: the pair of
\* every tool with a Font input, and of every sub-slot with a font of the
\* MultiText tools; an unset style stands for "Regular".
UsagePairs(ns) ==
    {Pair(ns[i].font, StyleOfInput(ns[i].style)) : i \in {j \in 1..Len(ns) : ns[j].font # None}}
    \cup {Pair(ns[sl[1]].blocks[sl[2]].font, StyleOrRegular(ns[sl[1]].blocks[sl[2]].style)) :
            sl \in {t \in (1..Len(ns)) \X BlockNames :
                      /\ ns[t[1]].font = None
                      /\ ns[t[1]].regid = "MultiText"
                      /\ Truthy(ns[t[1]].blocks[t[2]].font)}}

StylesUsedWith(font_name, ns) == {p.style : p \in {q \in UsagePairs(ns) : q.font = font_name}}

Scanned ==
    /\ last.op = "scan"
    /\ timeline
    /\ last.fault = NoFault

\* C23: the report of a scan has one record per font in use; its used_styles
\* are the styles used with the font over all slots (an unset style counted as
\* "Regular"), its missing_styles are the used styles that the font list's
\* entry of the font does not hold (none where the font list has no entry to
\* compare with), and font_missing is set exactly when the font list has no
\* entry of the font; under an empty font list every font in use is reported
\* as font missing.
C23_ScanReportsUsage ==
    Scanned
    => /\ DOMAIN last.used = {p.font : p \in UsagePairs(nodes)}
       /\ \A F \in DOMAIN last.used :
            /\ last.used[F].used_styles = StylesUsedWith(F, nodes)
            /\ last.used[F].font_missing = (F \notin DOMAIN catalog)
            /\ last.used[F].missing_styles =
                 IF F \in DOMAIN catalog THEN StylesUsedWith(F, nodes) \ catalog[F] ELSE {}
       /\ catalog = CatalogNone => \A F \in DOMAIN last.used : last.used[F].font_missing

\* A scan met a tool without a style at a listed font, and a font that is not
\* listed.
C23_Witness ==
    /\ Scanned
    /\ catalog = CatalogArial
    /\ Pair(Arial, None) \in {Pair(nodes[i].font, nodes[i].style) : i \in 1..Len(nodes)}
    /\ Arial \in DOMAIN last.used
    /\ Regular \in last.used[Arial].missing_styles
    /\ Helvetica \in DOMAIN last.used
    /\ last.used[Helvetica].font_missing
    /\ last.used[Helvetica].missing_styles = {}

\* C24: a replace invocation saves its restoration log if and only if it
\* replaced at least one slot; an invocation that replaced nothing saves no log.
C24_SavedIffReplaced ==
    last.op = "replace" => (last.saved <=> ChangedSlots # {})

\* C25: at the end of a replace invocation the restoration log holds as many
\* entries as the invocation reports slots replaced, also when the host
\* rejected some of the writes.
C25_OneEntryPerReplacedSlot ==
    (last.op = "replace" /\ ~last.raised) => Len(last.log) = last.made

\* The pairs the slots of scene ns hold, as stored and as the handlers read
\* them (an unset style read as "Regular").
SlotPairsOf(ns) == {SlotPair(ns, sl) : sl \in SlotsOf(ns)} \cup UsagePairs(ns)

\* The tags of index whose replacement pair no slot of scene ns holds.
Unmatched(index, ns) ==
    {k \in 1..Len(index) :
       Pair(index[k].tag.replacement_font, index[k].tag.replacement_style) \notin SlotPairsOf(ns)}

\* Entry e of the tag index of the scene before is in the scene after what it
\* was before: its text is in the Comments of the same tool, as often as
\* before, and decodes to the same tag.
Untouched(e, before, after, index_after) ==
    /\ Count(before[e.source_node].comments, e.tag.full_tag) >= 1
    /\ Count(after[e.source_node].comments, e.tag.full_tag)
         = Count(before[e.source_node].comments, e.tag.full_tag)
    /\ \E k \in 1..Len(index_after) : index_after[k] = e

UnmatchedUntouched(index, index_after) ==
    \A k \in Unmatched(index, last.pre) : Untouched(index[k], last.pre, nodes, index_after)

\* C26: a tag whose replacement pair is the current pair of no slot is left
\* untouched by a restore invocation: its text is afterwards in the same
\* Comments field, unchanged, whatever other tags the invocation removed.
C26_UnmatchedTagUntouched ==
    last.op = "restore" => UnmatchedUntouched(TagIndex(last.pre), TagIndex(nodes))

\* A restore removed a tag from a Comments field that also holds a tag no slot
\* matched.
C26_Witness ==
    /\ last.op = "restore"
    /\ \E j \in 1..Len(last.events) :
         /\ last.events[j].removed
         /\ \E k \in Unmatched(TagIndex(last.pre), last.pre) :
              TagIndex(last.pre)[k].source_node = last.events[j].source_node

\* A handler was invoked in a script that holds no timeline.
NoTimelineRun ==
    /\ ~timeline
    /\ last.op \in {"scan", "replace", "restore"}

\* C27: without a timeline the scan, the replace and the restore handler return
\* before any traversal: no tool is read (a host that would refuse the read is
\* not met), no slot and no Comments field is written, no composition is
\* locked, and no restoration log is created or saved.
C27_NoTimelineShortCircuit ==
    NoTimelineRun
    => /\ nodes = last.pre
       /\ ~last.raised
       /\ last.lock_calls = 0
       /\ locks = 0
       /\ last.log = <<>>
       /\ ~last.saved
       /\ last.made = 0
       /\ last.found = 0
       /\ last.events = <<>>
       /\ last.used = <<>>

\* Replace was invoked without a timeline on a scene with a missing slot, on a
\* host whose first tool refuses to be read.
C27_Witness ==
    /\ NoTimelineRun
    /\ last.op = "replace"
    /\ last.resolved # NoPair
    /\ MissingSlots # {}
    /\ last.fault = Fault("inspect", 1)

\* The restore id written into tag t.
IdOf(t) == extract_tag_value(t.full_tag, KeyRestoreId)

\* The tags tool i carried before the last invocation, and the tags the last
\* invocation added to it (a replace invocation appends).
TagsBefore(i) == ParseComments(last.pre[i].comments)
TagsAdded(i) ==
    LET after == ParseComments(nodes[i].comments)
    IN  {after[k] : k \in (Len(TagsBefore(i)) + 1)..Len(after)}

\* C28: all tags a replace invocation creates carry one restore id, the
\* restore_session_id of the invocation's restoration log; the tags of other
\* invocations, which the scene carried before, carry other restore ids.
C28_OneIdPerInvocation ==
    last.op = "replace"
    => /\ \A i \in 1..Len(nodes) : \A t \in TagsAdded(i) : IdOf(t) = last.restore_session_id
       /\ (\E i \in 1..Len(nodes) : TagsAdded(i) # {})
          => \A i \in 1..Len(nodes) : \A k \in 1..Len(TagsBefore(i)) :
                IdOf(TagsBefore(i)[k]) # last.restore_session_id

\* The pair restore reads from slot sl of scene ns (an unset style is read as
\* "Regular").
PairRead(ns, sl) ==
    IF sl[2] = "" THEN Pair(ns[sl[1]].font, StyleOfInput(ns[sl[1]].style))
    ELSE Pair(ns[sl[1]].blocks[sl[2]].font, StyleOrRegular(ns[sl[1]].blocks[sl[2]].style))

\* The positions of index whose tag matches slot sl of scene ns: the tag's
\* replacement pair is the slot's pair, and a tag with a sub-slot name is taken
\* for that sub-slot only.
Candidates(index, ns, sl) ==
    {k \in 1..Len(index) :
       /\ Pair(index[k].tag.replacement_font, index[k].tag.replacement_style) = PairRead(ns, sl)
       /\ (sl[2] # "" /\ Truthy(index[k].tag.text_block)) => index[k].tag.text_block = <<sl[2]>>}

First(S) == CHOOSE k \in S : \A j \in S : k <= j

\* Every slot the restore matched was matched with the first of its candidates.
FirstCandidateUsed(index) ==
    \A j \in 1..Len(last.events) :
       LET e == last.events[j]
           cands == Candidates(index, last.pre, e.slot)
       IN  /\ cands # {}
           /\ e.source_node = index[First(cands)].source_node
           /\ e.tag = index[First(cands)].tag

\* C29: when several tags match the current pair of a slot, restore uses the
\* first of them in the order of the tag index (the tools in tool-list order,
\* the tags of one Comments field in textual order); the tag used is a function
\* of the scene the restore started on.
C29_FirstMatchWins ==
    (last.op = "restore" /\ last.fault = NoFault) => FirstCandidateUsed(TagIndex(last.pre))

\* A restore matched a slot that had two candidates with different texts, on
\* different tools.
C29_Witness ==
    /\ last.op = "restore"
    /\ last.fault = NoFault
    /\ \E j \in 1..Len(last.events) :
         \E k1, k2 \in Candidates(TagIndex(last.pre), last.pre, last.events[j].slot) :
            /\ k1 < k2
            /\ TagIndex(last.pre)[k1].tag.full_tag # TagIndex(last.pre)[k2].tag.full_tag
            /\ TagIndex(last.pre)[k1].source_node # TagIndex(last.pre)[k2].source_node
            /\ last.events[j].tag = TagIndex(last.pre)[k1].tag

\* C30: every write of a handler to a slot or to a Comments field is made
\* under the lock of the composition (a handler that changed the scene had
\* called Lock on it), and no two compositions are locked at one time, neither
\* during an invocation nor between two.
C30_WritesUnderOneLock ==
    /\ (last.op \in {"replace", "restore"} /\ nodes # last.pre) => last.lock_calls > 0
    /\ last.peak <= 1
    /\ ~(locks > 0 /\ further_locks > 0)

-----------------------------------------------------------------------------
(* Further properties of the codec *)

\* The pieces that open a block and do not close it.
UnclosedPieces == {<<MarkerOpen>>, TagUnclosed}

\* C31: a block with an opening marker and no closing marker of its own is
\* discarded without affecting its neighbours: where it is followed by a
\* well-formed block, the decoder returns the tag of the well-formed block,
\* with that block's fields and that block's text as full_tag.
C31_UnclosedBlockDiscarded ==
    (cop.op = "decoded" /\ ~cop.raised)
    => \A k \in 1..(Len(pieces) - 1) :
          (pieces[k] \in UnclosedPieces /\ pieces[k + 1] \in TagPieces)
          => \E j \in 1..Len(decoded) : decoded[j] = ParseComments(pieces[k + 1])[1]

FontFields == {"original_font", "original_style", "replacement_font", "replacement_style"}

\* The four font values of each tag of a decoded list.
FontValues(tags) == [k \in 1..Len(tags) |-> [f \in FontFields |-> TagGet(tags[k], f)]]

\* C32: in whatever order the key: value lines stand between the two markers,
\* the decoder returns what it returns for the block in the order the engine
\* writes: as many tags, with the same original font, original style,
\* replacement font and replacement style (for a tag with plain values: one
\* tag, with the values that were encoded).
C32_DecodeIgnoresFieldOrder ==
    cop.op = "decoded"
    => /\ FontValues(decoded) = FontValues(ParseComments(EncodeTag(tag)))
       /\ PlainTag(tag) => /\ Len(decoded) = 1
                           /\ \A f \in FontFields : decoded[1][f] = tag[f]

\* a block whose lines start with restore_id and end with original_font, with
\* a two-word font name, was decoded to a tag
C32_Witness ==
    /\ cop.op = "decoded"
    /\ PlainTag(tag)
    /\ Contains(tag.original_font, <<SP>>)
    /\ pieces[1] = KeyLines(tag)[5]
    /\ pieces[5] = KeyLines(tag)[1]
    /\ Len(decoded) = 1

-----------------------------------------------------------------------------
(* Further properties of the two handlers *)

\* The sub-slots of tool i whose pair the last invocation changed.
ChangedBlocks(i) == {b \in BlockNames : <<i, b>> \in ChangedSlots}

\* C33: a replace invocation appends to the Comments of a MultiText tool as
\* many tags as it replaced sub-slots of the tool, each tag under a TextBlock
\* line that names a replaced sub-slot and with that sub-slot's original pair;
\* the tags it adds to any other tool's Comments have no TextBlock line.
C33_OneScopedTagPerReplacedSubSlot ==
    last.op = "replace"
    => \A i \in 1..Len(nodes) :
         IF last.pre[i].regid = "MultiText"
         THEN /\ Cardinality(TagsAdded(i)) = Cardinality(ChangedBlocks(i))
              /\ \A t \in TagsAdded(i) :
                   \E b \in ChangedBlocks(i) :
                      /\ t.text_block = <<b>>
                      /\ Pair(t.original_font, t.original_style) = SlotPair(last.pre, <<i, b>>)
         ELSE \A t \in TagsAdded(i) : t.text_block = None

\* C34: at the end of a restore invocation the found count is at least the
\* restored count plus the skipped count, for Text+ slots and MultiText
\* sub-slots alike; the status is 'No restoration tags found' (found_tags = 0,
\* line 579) only when no slot was restored and none was skipped.
C34_FoundCoversRestoredAndSkipped ==
    last.op = "restore"
    => /\ last.found >= last.restored + last.skipped
       /\ last.found = 0 => (last.restored = 0 /\ last.skipped = 0)

-----------------------------------------------------------------------------
(* Further properties of the codec: the text of a decoded tag *)

\* C35: the full_tag of every tag the decoder returns stands in the decoded
\* field as it is, in one piece, also when other lines stand between a
\* TextBlock line and the opening marker; so removing a tag that was just
\* decoded takes its text out of the field.
C35_FullTagIsPartOfField ==
    /\ (cop.op = "decoded" /\ ~cop.raised)
       => \A k \in 1..Len(decoded) : Contains(field, decoded[k].full_tag)
    /\ cop.op = "removed"
       => /\ Contains(cop.before, decoded[cop.k].full_tag)
          /\ Count(field, <<MarkerOpen>>) < Count(cop.before, <<MarkerOpen>>)

-----------------------------------------------------------------------------
(* Further properties of the replacement engine *)

\* Every slot of scene ns holds a pair that is in font_list.
AllValid(ns, font_list) ==
    \A sl \in SlotsOf(ns) :
       check_font_style_availability(font_list, SlotPair(ns, sl).font, SlotPair(ns, sl).style)

\* C36: replace reaches a fixed point.  After a replace invocation that got
\* past the test of its target, all writes succeeding, every slot that holds a
\* font holds a pair of the font list, whatever the font list; and a replace
\* invocation on a scene whose slots all hold pairs of the font list, as a
\* second one with the same font list does, replaces no slot, embeds no tag
\* and saves no log.
C36_ReplaceReachesFixedPoint ==
    (last.op = "replace" /\ ~last.raised)
    => /\ last.resolved # NoPair => AllValid(nodes, last.catalog)
       /\ AllValid(last.pre, last.catalog)
          => (last.made = 0 /\ nodes = last.pre /\ ~last.saved)

\* C37: replace and restore cover the same tools: every tool whose Font and
\* Style replace can change, that is every tool with a font, whatever its type
\* id, is looked at by restore: when a tag matches the pair the tool holds, the
\* restore matches the tool's slot with a tag (and restores or skips it).
C37_RestoreCoversWhatReplaceCovers ==
    (last.op = "restore" /\ last.fault = NoFault /\ ~NoTimelineRun)
    => \A i \in 1..Len(last.pre) :
         (last.pre[i].font # None /\ Candidates(TagIndex(last.pre), last.pre, <<i, "">>) # {})
         => \E j \in 1..Len(last.events) : last.events[j].slot = <<i, "">>

-----------------------------------------------------------------------------
(* Further properties of the scanner *)

\* C38: in the report of every scan, each usage record has its missing styles
\* among its used styles, at least one used style, and no missing style when
\* the font itself is missing.
C38_UsageRecordWellFormed ==
    last.op = "scan"
    => \A F \in DOMAIN last.used :
         /\ last.used[F].missing_styles \subseteq last.used[F].used_styles
         /\ last.used[F].used_styles # {}
         /\ last.used[F].font_missing => last.used[F].missing_styles = {}

\* A scan reported a font of which some used styles are missing and some are
\* not, and a font that is missing.
C38_Witness ==
    /\ last.op = "scan"
    /\ \E F \in DOMAIN last.used :
         /\ last.used[F].missing_styles # {}
         /\ last.used[F].missing_styles # last.used[F].used_styles
         /\ ~last.used[F].font_missing
    /\ \E G \in DOMAIN last.used :
         /\ last.used[G].font_missing
         /\ last.used[G].used_styles # {}

-----------------------------------------------------------------------------
(* Termination of the line scanner *)

\* C39: the line scanner terminates on every field: every iteration of its
\* outer loop, through the TextBlock branch, the bare-marker branch or neither,
\* ends with a larger line index than it began with; the index never passes
\* the end of the lines by more than two; and the scanner returns, with the
\* tags the decoder returns for the field.
C39_ScannerTerminates ==
    /\ [][cop'.op = "scanning" => cop'.k > cop.k]_vars
    /\ [](\A i \in 1..MaxLines : AtLine(i) => ScanStep(cop.before, i, decoded).i > i)
    /\ [](cop.op \in {"scanning", "scanned"} => cop.k <= Len(cop.before) + 2)
    /\ [](cop.op = "scanned" => decoded = ParseComments(field))
    /\ <>(cop.op = "scanned")

\* The scanner returned from a field with a TextBlock line that no block
\* follows, a block without a closing marker and a closed block.
C39_Witness ==
    /\ cop.op = "scanned"
    /\ pieces = <<TagUnclosed, TagOneScoped, <<KeyTextBlock, SP, "Text1">>>>
    /\ Len(decoded) = 1


=============================================================================
